---- MODULE Spec2Model ----
(***************************************************************************)
(* Model of the adaptive concurrent Steam price fetch engine of             *)
(* skinport-bullish (src/steam_api.py, src/cache_manager.py, src/config.py).*)
(*                                                                         *)
(* Delays are Python floats in seconds.  They are modelled in fixed point, *)
(* in microseconds, and a float product is rounded to the nearest          *)
(* microsecond: 2.0 s is 2000000.                                          *)
(*                                                                         *)
(* A quote (the dict steam_data) is modelled by its fields current_price,  *)
(* sales_7d and source; currency and app_id are the call's parameters and  *)
(* are the same in every quote of a run, and explosiveness is a function   *)
(* of current_price and sales_7d.  The answers of the model carry a price  *)
(* and no volume, so that sales_7d keeps the 0 it starts with.             *)
(***************************************************************************)
EXTENDS Integers, Sequences, FiniteSets, TLC

(***************************************************************************)
(* Bounds of the model.                                                    *)
(***************************************************************************)
\* calls of adaptive_delay_adjustment made by the caller of SpecRate
MaxCalls == 16
\* prices a source can answer with are 1..MaxPrice
MaxPrice == 2
\* answers other than the usual one (DefaultAnswer) the sources give during a
\* batch of one chunk
MaxFaults == 5
\* market names of SpecKey have at most MaxNameLen characters
MaxNameLen == 2
\* the clock of SpecCache advances MaxTicks times, by half an hour
MaxTicks == 4
\* Steam prices of SpecArbitrage are 0..MaxCents cents
MaxCents == 130
\* values given to _normalize_score are at most MaxTenths tenths
MaxTenths == 55
\* answers other than the usual one the two workers of SpecLock get
MaxLockFaults == 3
\* answers other than DefaultAnswer during a run under the fair event loop
MaxFairFaults == 3
\* volumes of seven days given to the volume surge are 0 .. MaxVolume
MaxVolume == 120

(***************************************************************************)
(* Program constants (src/config.py, src/steam_api.py).                    *)
(***************************************************************************)
MAX_CONCURRENT_STEAM_REQUESTS == 3
ADAPTIVE_DELAY_MULTIPLIER == 2
\* DELAY_RECOVERY_FACTOR = 0.95, in hundredths
DELAY_RECOVERY_FACTOR == 95
\* the max_retries the batch passes, and the workers' default
max_retries == 5
\* the chunk size of batch_fetch_steam_prices_async
chunk_size == 8

Sources == {"steam_direct", "steam_render"}

\* the item identifiers of the model
Items == {"ak", "m4"}

\* the value None of current_price (prices are positive numbers)
Null == -1

\* STEAM_SOURCES[s]["initial_delay"], in microseconds
initial_delay(s) == IF s = "steam_direct" THEN 2000000 ELSE 2500000

\* STEAM_SOURCES[s]["max_delay"], in microseconds
max_delay(s) == IF s = "steam_direct" THEN 10000000 ELSE 12000000

VARIABLES
    STEAM_SOURCES,  \* per source: current_delay, the counters, enabled
    cache,          \* the cache directory: <<source, item>> -> quote or NoEntry
    semaphore,      \* the asyncio.Semaphore: created, and its free permits
    task,           \* the resolutions in flight: position -> task record
    item_names,     \* the batch's input list
    items_to_fetch, \* the batch's cache misses, in input order
    steam_data_map, \* the batch's result map: item -> quote
    chunk_start,    \* the batch's chunk_start
    bpc,            \* where the batch is: "init", "gather", "cooldown", "done"
    faults,         \* answers other than DefaultAnswer the sources may still give
    calls,          \* SpecRate: the calls of adaptive_delay_adjustment made so far
    last_call,      \* SpecRate: the arguments of the latest of these calls
    rate_limit_lock, \* _rate_limit_lock: 0 when free, else the coroutine holding it
    files,          \* the files of CACHE_DIR: key -> [text, mtime] or NoFile
    clock,          \* time.time(), in seconds
    arg,            \* the arguments of the function under study
    ret             \* what the latest call of it returned

batch_vars == <<item_names, items_to_fetch, steam_data_map, chunk_start, bpc>>

vars == <<STEAM_SOURCES, cache, semaphore, task, item_names, items_to_fetch,
          steam_data_map, chunk_start, bpc, faults, calls, last_call,
          rate_limit_lock, files, clock, arg, ret>>

rate_vars == <<calls, last_call, rate_limit_lock>>

lib_vars == <<files, clock, arg, ret>>

Min(a, b) == IF a <= b THEN a ELSE b
Max(a, b) == IF a >= b THEN a ELSE b

\* a float product x * (num/den), rounded to the nearest microsecond
MulRound(x, num, den) == (x * num + den \div 2) \div den

(***************************************************************************)
(* Cache keys: _cache_key_for_steam.  A Python str is modelled by the      *)
(* sequence of its characters.                                             *)
(***************************************************************************)
\* the characters of the strings the model names by an identifier
Chars(str) ==
    CASE str = "steam" -> <<"s", "t", "e", "a", "m">>
      [] str = "steam_direct" -> <<"s", "t", "e", "a", "m", "_", "d", "i", "r", "e", "c", "t">>
      [] str = "steam_render" -> <<"s", "t", "e", "a", "m", "_", "r", "e", "n", "d", "e", "r">>
      [] str = "ak" -> <<"a", "k">>
      [] str = "m4" -> <<"m", "4">>
      [] str = "USD" -> <<"U", "S", "D">>
      [] str = "EUR" -> <<"E", "U", "R">>

\* str(n) for an int n >= 0
RECURSIVE Digits(_)
Digits(n) ==
    LET d == <<"0", "1", "2", "3", "4", "5", "6", "7", "8", "9">>[(n % 10) + 1]
    IN  IF n < 10 THEN <<d>> ELSE Digits(n \div 10) \o <<d>>

\* hashlib.sha256(text.encode("utf8")).hexdigest(); the digest is taken to
\* differ for different texts
Sha256Hex(text) == [sha256 |-> text]

\* variant: the key of the script variant that leaves app_id out
cache_key_without_app_id(source, skin_name, currency, app_id) ==
    Sha256Hex(Chars("steam") \o <<"_">> \o source \o <<"_">> \o skin_name
              \o <<"_">> \o currency)

\* _cache_key_for_steam(source, skin_name, currency, app_id): the digest of
\* f"steam_{source}_{skin_name}_{currency}_{app_id}"
cache_key_for_steam(source, skin_name, currency, app_id) ==
    Sha256Hex(Chars("steam") \o <<"_">> \o source \o <<"_">> \o skin_name
              \o <<"_">> \o currency \o <<"_">> \o Digits(app_id))

\* the currency and app_id of the run (the defaults of the batch)
RunCurrency == "USD"
RunAppId == 730

\* the key of the run for a source and an item
CacheKey(source, item) ==
    cache_key_for_steam(Chars(source), Chars(item), Chars(RunCurrency), RunAppId)

\* the keys of the run
CacheKeys == {CacheKey(s, i) : s \in Sources, i \in Items}

(***************************************************************************)
(* Rate controller: adaptive_delay_adjustment.                             *)
(***************************************************************************)
\* the static configuration of STEAM_SOURCES, with the enabled flags given
StaticConfig(en) ==
    [s \in Sources |->
        [current_delay |-> initial_delay(s),
         success_count |-> 0,
         error_count |-> 0,
         rate_limit_count |-> 0,
         enabled |-> en[s]]]

\* variant: the rate_limited branch without min(..., max_delay)
EscalatedDelayUncapped(s, d) == MulRound(d, ADAPTIVE_DELAY_MULTIPLIER, 1)

\* the delay written by the rate_limited branch
EscalatedDelay(s, d) == Min(MulRound(d, ADAPTIVE_DELAY_MULTIPLIER, 1), max_delay(s))

\* variant: the success branch without max(..., initial_delay)
RecoveredDelayUnfloored(s, d) == MulRound(d, DELAY_RECOVERY_FACTOR, 100)

\* the delay written by the success branch
RecoveredDelay(s, d) == Max(MulRound(d, DELAY_RECOVERY_FACTOR, 100), initial_delay(s))

\* variant: the two branches write each other's delay
AdjustmentSwapped(SS, source, success, rate_limited) ==
    IF rate_limited
    THEN [SS EXCEPT ![source].rate_limit_count = @ + 1,
                    ![source].current_delay = RecoveredDelay(source, @)]
    ELSE IF success
    THEN [SS EXCEPT ![source].current_delay = EscalatedDelay(source, @)]
    ELSE SS

\* variant: success is tested before rate_limited
AdjustmentSuccessFirst(SS, source, success, rate_limited) ==
    IF success
    THEN [SS EXCEPT ![source].current_delay = RecoveredDelay(source, @)]
    ELSE IF rate_limited
    THEN [SS EXCEPT ![source].rate_limit_count = @ + 1,
                    ![source].current_delay = EscalatedDelay(source, @)]
    ELSE SS

\* variant: a third branch that counts the plain failure
AdjustmentCountingErrors(SS, source, success, rate_limited) ==
    IF rate_limited
    THEN [SS EXCEPT ![source].rate_limit_count = @ + 1,
                    ![source].current_delay = EscalatedDelay(source, @)]
    ELSE IF success
    THEN [SS EXCEPT ![source].current_delay = RecoveredDelay(source, @)]
    ELSE [SS EXCEPT ![source].error_count = @ + 1]

\* adaptive_delay_adjustment(source, success, rate_limited): the new STEAM_SOURCES
AdaptiveDelayAdjustment(SS, source, success, rate_limited) ==
    IF rate_limited
    THEN [SS EXCEPT ![source].rate_limit_count = @ + 1,
                    ![source].current_delay = EscalatedDelay(source, @)]
    ELSE IF success
    THEN [SS EXCEPT ![source].current_delay = RecoveredDelay(source, @)]
    ELSE SS

\* one call of adaptive_delay_adjustment by some worker, under _rate_limit_lock
OnOutcome(source, success, rate_limited) ==
    /\ calls < MaxCalls
    /\ calls' = calls + 1
    /\ last_call' = [source |-> source, success |-> success, rate_limited |-> rate_limited]
    /\ STEAM_SOURCES' = AdaptiveDelayAdjustment(STEAM_SOURCES, source, success, rate_limited)
    /\ UNCHANGED <<rate_limit_lock, cache, semaphore, task, faults, batch_vars, lib_vars>>

NoEntry == [current_price |-> Null, sales_7d |-> 0, source |-> "absent"]

\* no resolution in flight
NoTasks == [t \in {} |-> NoEntry]

\* the empty result map
EmptyMap == [i \in {} |-> NoEntry]

\* no batch is running
NoBatch ==
    /\ item_names = <<>>
    /\ items_to_fetch = <<>>
    /\ steam_data_map = EmptyMap
    /\ chunk_start = 0
    /\ bpc = "none"

\* cache_manager and the functions of data_analysis are not under study
NoLibrary ==
    /\ files = <<>>
    /\ clock = 0
    /\ arg = <<>>
    /\ ret = <<>>

\* adaptive_delay_adjustment has no caller but the workers
NoCalls ==
    /\ calls = 0
    /\ last_call = [source |-> "none", success |-> FALSE, rate_limited |-> FALSE]
    /\ rate_limit_lock = 0

InitRate ==
    /\ STEAM_SOURCES = StaticConfig([s \in Sources |-> TRUE])
    /\ cache = [k \in CacheKeys |-> NoEntry]
    /\ semaphore = [created |-> FALSE, value |-> 0]
    /\ task = NoTasks
    /\ NoBatch
    /\ faults = 0
    /\ NoCalls
    /\ NoLibrary

NextRate == \E s \in Sources, success \in BOOLEAN, rate_limited \in BOOLEAN :
                OnOutcome(s, success, rate_limited)

SpecRate == InitRate /\ [][NextRate]_vars

(***************************************************************************)
(* Quotes and the cache.                                                   *)
(***************************************************************************)
Prices == 1 .. MaxPrice

\* the dict steam_data a worker starts from
EmptyQuote(tag) == [current_price |-> Null, sales_7d |-> 0, source |-> tag]

\* the dict steam_data of a worker that found a price
PricedQuote(tag, p) == [current_price |-> p, sales_7d |-> 0, source |-> tag]

\* the record the coordinator builds when no source gave a price
NoneQuote == EmptyQuote("none")

\* the record the batch builds for a resolution that raised
ErrorQuote == EmptyQuote("error")

\* Python truth of result.get("current_price")
HasPrice(q) == q.current_price # Null /\ q.current_price # 0

\* "if cached_data:" after load_cache(cache_key, STEAM_CACHE_TTL)
CacheHit(c, source, item) == c[CacheKey(source, item)] # NoEntry

\* save_cache(cache_key, steam_data)
SaveCache(c, source, item, q) == [c EXCEPT ![CacheKey(source, item)] = q]

(***************************************************************************)
(* What a source can answer to one request.                                *)
(***************************************************************************)
\* exceptions raised inside the attempt's try block
ExceptionKinds == {"timeout", "client_error", "exception"}

\* answers that carry no price
FaultKinds == {"rate_limited", "bad_status", "bad_json", "no_price"} \cup ExceptionKinds

Responses ==
    {[kind |-> k, price |-> 0] : k \in FaultKinds}
    \cup {[kind |-> "price", price |-> p] : p \in Prices}

\* the usual answer: a price
DefaultAnswer == [kind |-> "price", price |-> 1]

\* an exception raised during an attempt where no except clause of the worker
\* covers it (inside a handler, say): it leaves the worker and the coordinator
Unexpected == [kind |-> "unexpected", price |-> 0]

\* what can happen to an attempt of a batch
BatchResponses == Responses \cup {Unexpected}

\* variant: the handlers without the final "except Exception"
CaughtByName(kind) == kind \in {"timeout", "client_error"}

\* the except clauses of the attempt: asyncio.TimeoutError, aiohttp.ClientError, Exception
Caught(kind) == kind \in {"timeout", "client_error", "exception"}

(***************************************************************************)
(* One resolution: fetch_steam_price_multi_source_async and its workers.   *)
(*   pc = "start"    the coroutine is created and has not run              *)
(*   pc = "wait"     blocked at "async with semaphore" of retry_attempt    *)
(*   pc = "attempt"  holds a permit: sleeping, or its request is in flight *)
(*                   (backoff_delay is the backoff it sleeps first, in s)  *)
(*   pc = "done"     the coordinator returned result                       *)
(*   pc = "raised"   an exception left the coordinator                     *)
(* returned[s] is the quote worker s returned, NotCalled before;           *)
(* requests[s] counts the session.get calls of worker s, one per attempt.  *)
(***************************************************************************)
NotCalled == EmptyQuote("not_called")

NewTask(item) ==
    [item |-> item, pc |-> "start", source |-> "steam_direct", retry_attempt |-> 0,
     backoff_delay |-> 0, requests |-> [s \in Sources |-> 0],
     returned |-> [s \in Sources |-> NotCalled], result |-> NotCalled]

\* variant: the coordinator returns the quote of the last worker it called
LastWorkerResult(tk) ==
    [tk EXCEPT !.pc = "done",
               !.result = IF tk.returned["steam_render"] # NotCalled
                          THEN tk.returned["steam_render"]
                          ELSE tk.returned["steam_direct"]]

\* the coordinator's last lines: the record built when no source gave a price
NoSourceResult(tk) == [tk EXCEPT !.pc = "done", !.result = NoneQuote]

\* the coordinator after the render worker returned q
AfterRender(tk, q) ==
    IF HasPrice(q)
    THEN [tk EXCEPT !.pc = "done", !.result = q]
    ELSE NoSourceResult(tk)

\* variant: the render worker does not look into the cache
EnterRenderNoCache(tk, SS, c) ==
    IF ~SS["steam_render"].enabled
    THEN NoSourceResult(tk)
    ELSE [tk EXCEPT !.pc = "wait", !.source = "steam_render", !.retry_attempt = 0]

\* the coordinator's second step: fetch_steam_price_render_async up to its
\* first "async with semaphore"
EnterRender(tk, SS, c) ==
    IF ~SS["steam_render"].enabled
    THEN NoSourceResult(tk)
    ELSE IF CacheHit(c, "steam_render", tk.item)
    THEN AfterRender([tk EXCEPT !.returned["steam_render"] = c[CacheKey("steam_render", tk.item)]],
                     c[CacheKey("steam_render", tk.item)])
    ELSE IF max_retries = 0
    THEN AfterRender([tk EXCEPT !.returned["steam_render"] = EmptyQuote("steam_render")],
                     EmptyQuote("steam_render"))
    ELSE [tk EXCEPT !.pc = "wait", !.source = "steam_render", !.retry_attempt = 0]

\* variant: the coordinator returns what the direct worker returned
AfterDirectNoFallThrough(tk, q, SS, c) == [tk EXCEPT !.pc = "done", !.result = q]

\* the coordinator after the direct worker returned q
AfterDirect(tk, q, SS, c) ==
    IF HasPrice(q)
    THEN [tk EXCEPT !.pc = "done", !.result = q]
    ELSE EnterRender(tk, SS, c)

\* the coordinator's first step: fetch_steam_price_direct_async up to its
\* first "async with semaphore"
EnterDirect(tk, SS, c) ==
    IF ~SS["steam_direct"].enabled
    THEN EnterRender(tk, SS, c)
    ELSE IF CacheHit(c, "steam_direct", tk.item)
    THEN AfterDirect([tk EXCEPT !.returned["steam_direct"] = c[CacheKey("steam_direct", tk.item)]],
                     c[CacheKey("steam_direct", tk.item)], SS, c)
    ELSE IF max_retries = 0
    THEN AfterDirect([tk EXCEPT !.returned["steam_direct"] = EmptyQuote("steam_direct")],
                     EmptyQuote("steam_direct"), SS, c)
    ELSE [tk EXCEPT !.pc = "wait", !.source = "steam_direct", !.retry_attempt = 0]

\* worker tk.source returns q to the coordinator
WorkerReturns(tk, q, SS, c) ==
    IF tk.source = "steam_direct"
    THEN AfterDirect([tk EXCEPT !.returned["steam_direct"] = q], q, SS, c)
    ELSE AfterRender([tk EXCEPT !.returned["steam_render"] = q], q)

\* variant: the worker retags its quote when the retry loop ends
ExhaustedQuoteRetagged(source) == EmptyQuote("error")

\* the quote a worker returns when its retry loop ends: its steam_data, unchanged
ExhaustedQuote(source) == EmptyQuote(source)

\* variant: a worker gives up after the first attempt that ends without a return
NextAttemptGivesUp(tk, SS, c) == WorkerReturns(tk, ExhaustedQuote(tk.source), SS, c)

\* variant: the retry loop has no bound
NextAttemptUnbounded(tk, SS, c) == [tk EXCEPT !.pc = "wait", !.retry_attempt = @ + 1]

\* the attempt ended without a return: "continue", or the end of the loop body
NextAttempt(tk, SS, c) ==
    IF tk.retry_attempt + 1 < max_retries
    THEN [tk EXCEPT !.pc = "wait", !.retry_attempt = @ + 1]
    ELSE WorkerReturns(tk, ExhaustedQuote(tk.source), SS, c)

\* variant: failures other than a rate limit are not counted
SourcesAfterUncounted(SS, s, r) ==
    IF r.kind = "rate_limited"
    THEN [AdaptiveDelayAdjustment(SS, s, FALSE, TRUE) EXCEPT ![s].error_count = @ + 1]
    ELSE IF r.kind = "price"
    THEN [AdaptiveDelayAdjustment(SS, s, TRUE, FALSE) EXCEPT ![s].success_count = @ + 1]
    ELSE SS

\* STEAM_SOURCES after the attempt of source s got answer r
SourcesAfter(SS, s, r) ==
    IF r.kind = "rate_limited"
    THEN [AdaptiveDelayAdjustment(SS, s, FALSE, TRUE) EXCEPT ![s].error_count = @ + 1]
    ELSE IF r.kind \in {"bad_status", "bad_json"}
    THEN [SS EXCEPT ![s].error_count = @ + 1]
    ELSE IF r.kind \in ExceptionKinds
    THEN IF Caught(r.kind) THEN [SS EXCEPT ![s].error_count = @ + 1] ELSE SS
    ELSE IF r.kind = "price"
    THEN [AdaptiveDelayAdjustment(SS, s, TRUE, FALSE) EXCEPT ![s].success_count = @ + 1]
    ELSE SS

\* variant: the worker saves its steam_data whatever the answer was
CacheAfterAlways(c, s, item, r) ==
    IF r.kind = "price"
    THEN SaveCache(c, s, item, PricedQuote(s, r.price))
    ELSE SaveCache(c, s, item, EmptyQuote(s))

\* the cache after the attempt of source s for item got answer r
CacheAfter(c, s, item, r) ==
    IF r.kind = "price"
    THEN SaveCache(c, s, item, PricedQuote(s, r.price))
    ELSE c

\* the task after its attempt got answer r (SS and c: the state after the
\* attempt): at its next "async with semaphore", returned or raised
TaskAfter(tk, r, SS, c) ==
    IF r.kind = "price"
    THEN WorkerReturns(tk, PricedQuote(tk.source, r.price), SS, c)
    ELSE IF (r.kind \in ExceptionKinds \/ r = Unexpected) /\ ~Caught(r.kind)
    THEN [tk EXCEPT !.pc = "raised"]
    ELSE NextAttempt(tk, SS, c)

\* the permits a task holds
Held(tk) == IF tk.pc = "attempt" THEN 1 ELSE 0

\* variant: the backoff doubles without a ceiling
BackoffUncapped(retry_attempt) ==
    IF retry_attempt > 0 THEN 5 * 2 ^ (retry_attempt - 1) ELSE 0

\* "if retry_attempt > 0: backoff_delay = min(30.0, 5.0 * (2 **
\* (retry_attempt - 1)))", in seconds; 0 when the attempt sleeps no backoff
Backoff(retry_attempt) ==
    IF retry_attempt > 0 THEN Min(30, 5 * 2 ^ (retry_attempt - 1)) ELSE 0

\* the body of "async with semaphore" is entered: the attempt begins with
\* its backoff and goes on to its request, session.get
EnterAttempt(tk) ==
    [tk EXCEPT !.pc = "attempt", !.backoff_delay = Backoff(tk.retry_attempt),
               !.requests[tk.source] = @ + 1]

\* variant: "async with semaphore" lets every task in
ArriveUnbounded(tk, free, take) ==
    IF tk.pc = "wait" THEN EnterAttempt(tk) ELSE tk

\* semaphore.acquire() of a task that reaches "async with semaphore": with a
\* free permit and take = TRUE it goes on without suspending, else it blocks
Arrive(tk, free, take) ==
    IF tk.pc = "wait" /\ free > 0 /\ take
    THEN EnterAttempt(tk)
    ELSE tk

\* variant: "continue" after a rate limit leaves the block without a release
ReleasedUnlessRetried(r) == IF r.kind = "rate_limited" THEN 0 ELSE 1

\* variant: an exception leaves the block without a release
ReleasedUnlessRaised(r) == IF r.kind \in ExceptionKinds \cup {"unexpected"} THEN 0 ELSE 1

\* the permits "async with semaphore" gives back when its body is left after
\* answer r, by return, by continue, or by an exception: __aexit__ releases
Released(r) == 1

\* some other task is blocked at the semaphore
OthersWaiting(t) == \E u \in DOMAIN task : u # t /\ task[u].pc = "wait"

\* the coordinator starts running, up to its first suspension
TaskStart(t) ==
    /\ t \in DOMAIN task
    /\ task[t].pc = "start"
    /\ task' = [task EXCEPT ![t] = Arrive(EnterDirect(task[t], STEAM_SOURCES, cache),
                                          semaphore.value, TRUE)]
    /\ semaphore' = [semaphore EXCEPT !.value = @ - Held(task'[t])]
    /\ UNCHANGED <<STEAM_SOURCES, cache, faults, batch_vars, rate_vars, lib_vars>>

\* a task blocked at "async with semaphore" gets a permit
Acquire(t) ==
    /\ t \in DOMAIN task
    /\ task[t].pc = "wait"
    /\ semaphore.value > 0
    /\ semaphore' = [semaphore EXCEPT !.value = @ - 1]
    /\ task' = [task EXCEPT ![t] = EnterAttempt(task[t])]
    /\ UNCHANGED <<STEAM_SOURCES, cache, faults, batch_vars, rate_vars, lib_vars>>

\* The request of the attempt is answered by r and the attempt ends: the answer
\* is classified, the permit released, and the worker returns to the
\* coordinator or reaches "async with semaphore" of its next attempt.  There
\* it takes the permit at once when no other task is blocked; when one is,
\* it takes the permit at once (asyncio before 3.11) or blocks behind it.
Respond(t, r) ==
    /\ t \in DOMAIN task
    /\ task[t].pc = "attempt"
    /\ r # DefaultAnswer => faults > 0
    /\ faults' = IF r # DefaultAnswer THEN faults - 1 ELSE faults
    /\ STEAM_SOURCES' = SourcesAfter(STEAM_SOURCES, task[t].source, r)
    /\ cache' = CacheAfter(cache, task[t].source, task[t].item, r)
    /\ \E take \in BOOLEAN :
          /\ ~take => OthersWaiting(t)
          /\ task' = [task EXCEPT ![t] =
                         Arrive(TaskAfter(task[t], r, STEAM_SOURCES', cache'),
                                semaphore.value + Released(r), take)]
    /\ semaphore' = [semaphore EXCEPT !.value = @ + Released(r) - Held(task'[t])]
    /\ UNCHANGED <<batch_vars, rate_vars, lib_vars>>

\* the quote a cache entry written by an earlier run holds
CachedQuote(s) == PricedQuote(s, 1)

\* the cache directory in which the pairs <<source, item>> of P have an entry
CacheWith(P) ==
    [k \in CacheKeys |->
        IF \E p \in P : k = CacheKey(p[1], p[2])
        THEN CachedQuote((CHOOSE p \in P : k = CacheKey(p[1], p[2]))[1])
        ELSE NoEntry]

\* the cache directories a run can start from, with entries for the items of S
InitialCaches(S) == {CacheWith(P) : P \in SUBSET (Sources \X S)}

\* the positions of the resolutions
TaskIds == 1 .. (chunk_size + 1)

\* one call of fetch_steam_price_multi_source_async(session, item, semaphore,
\* app_id, currency, max_retries=5) with a fresh semaphore
InitResolve ==
    /\ \E en \in [Sources -> BOOLEAN] : STEAM_SOURCES = StaticConfig(en)
    /\ \E i \in Items :
          /\ task = (1 :> NewTask(i))
          /\ cache \in InitialCaches({i})
    /\ semaphore = [created |-> TRUE, value |-> MAX_CONCURRENT_STEAM_REQUESTS]
    /\ NoBatch
    /\ faults = 2 * max_retries
    /\ NoCalls
    /\ NoLibrary

NextResolve ==
    \/ \E t \in TaskIds : TaskStart(t)
    \/ \E t \in TaskIds, r \in Responses : Respond(t, r)

SpecResolve == InitResolve /\ [][NextResolve]_vars

(***************************************************************************)
(* The batch scheduler: batch_fetch_steam_prices_async.                    *)
(***************************************************************************)
Range(f) == {f[x] : x \in DOMAIN f}

\* load_cache_batch(item_names, source, currency, app_id)[0]: the items with a hit
CachedItems(c, names, source) == {i \in Range(names) : CacheHit(c, source, i)}

\* steam_data_map after the loop over item_names: direct's entry before render's
CacheHits(c, names) ==
    [i \in CachedItems(c, names, "steam_direct") \cup CachedItems(c, names, "steam_render") |->
        IF i \in CachedItems(c, names, "steam_direct")
        THEN c[CacheKey("steam_direct", i)]
        ELSE c[CacheKey("steam_render", i)]]

\* variant: every requested item is fetched
MissesEveryName(names, map) == names

\* items_to_fetch = [name for name in item_names if name not in steam_data_map]
Misses(names, map) ==
    LET keep(name) == name \notin DOMAIN map
    IN  SelectSeq(names, keep)

\* variant: all misses form one chunk
ChunkEndWhole(start, n) == n

\* chunk_end = min(chunk_start + chunk_size, len(items_to_fetch))
ChunkEnd(start, n) == Min(start + chunk_size, n)

\* the coroutine for position t, run up to its first "async with semaphore"
Started(to_fetch, t, SS, c) == EnterDirect(NewTask(to_fetch[t]), SS, c)

\* the coroutines of positions from .. upto that reach the semaphore
Arrivals(to_fetch, from, upto, SS, c) ==
    Cardinality({u \in from .. upto : Started(to_fetch, u, SS, c).pc = "wait"})

\* The coroutines of one chunk as gather starts them, one after the other,
\* each up to its first suspension: the first `free` of them that reach the
\* semaphore take a permit, the others block.
ChunkTasks(to_fetch, start, free, SS, c) ==
    [t \in (start + 1) .. ChunkEnd(start, Len(to_fetch)) |->
        Arrive(Started(to_fetch, t, SS, c),
               free - Arrivals(to_fetch, start + 1, t - 1, SS, c), TRUE)]

\* the permits the tasks hold
HeldBy(tasks) == Cardinality({t \in DOMAIN tasks : tasks[t].pc = "attempt"})

\* variant: the result is stored without the isinstance(result, Exception) test
StoredResultUntested(tk) == tk.result

\* what asyncio.gather(..., return_exceptions=True) gives for one coroutine,
\* as the batch stores it
StoredResult(tk) == IF tk.pc = "raised" THEN ErrorQuote ELSE tk.result

\* variant: only a quote with a price is stored
StorePriced(map, item, q) ==
    IF HasPrice(q)
    THEN [i \in DOMAIN map \cup {item} |-> IF i = item THEN q ELSE map[i]]
    ELSE map

\* steam_data_map[item_name] = q
Store(map, item, q) == [i \in DOMAIN map \cup {item} |-> IF i = item THEN q ELSE map[i]]

\* the loop over zip(chunk_items, chunk_results), positions from .. to
RECURSIVE StoreChunk(_, _, _, _)
StoreChunk(map, tasks, from, to) ==
    IF from > to
    THEN map
    ELSE StoreChunk(Store(map, tasks[from].item, StoredResult(tasks[from])), tasks, from + 1, to)

\* variant: gather returns as soon as one coroutine has ended
GatherAnyComplete(tasks) == \E t \in DOMAIN tasks : tasks[t].pc \in {"done", "raised"}

\* "await asyncio.gather(*tasks, return_exceptions=True)" returns: every
\* coroutine has returned or raised
GatherComplete(tasks) == \A t \in DOMAIN tasks : tasks[t].pc \in {"done", "raised"}

\* the call, up to "await asyncio.gather" of the first chunk, or to its
\* return when every item is a cache hit
BatchStart ==
    /\ bpc = "init"
    /\ steam_data_map' = CacheHits(cache, item_names)
    /\ items_to_fetch' = Misses(item_names, steam_data_map')
    /\ chunk_start' = 0
    /\ IF items_to_fetch' = <<>>
       THEN /\ bpc' = "done"
            /\ UNCHANGED <<semaphore, task>>
       ELSE /\ bpc' = "gather"
            /\ task' = ChunkTasks(items_to_fetch', 0, MAX_CONCURRENT_STEAM_REQUESTS,
                                  STEAM_SOURCES, cache)
            /\ semaphore' = [created |-> TRUE,
                             value |-> MAX_CONCURRENT_STEAM_REQUESTS - HeldBy(task')]
    /\ UNCHANGED <<STEAM_SOURCES, cache, item_names, faults, rate_vars, lib_vars>>

\* gather returns: the chunk's results are stored, and the batch goes on to
\* the cool-down before the next chunk, or returns
ChunkDone ==
    /\ bpc = "gather"
    /\ GatherComplete(task)
    /\ steam_data_map' = StoreChunk(steam_data_map, task, chunk_start + 1,
                                     ChunkEnd(chunk_start, Len(items_to_fetch)))
    /\ task' = NoTasks
    /\ IF chunk_start + chunk_size < Len(items_to_fetch)
       THEN /\ chunk_start' = chunk_start + chunk_size
            /\ bpc' = "cooldown"
       ELSE /\ bpc' = "done"
            /\ UNCHANGED chunk_start
    /\ UNCHANGED <<STEAM_SOURCES, cache, semaphore, item_names, items_to_fetch,
                   faults, rate_vars, lib_vars>>

\* asyncio.sleep(inter_chunk_delay) is over: the next chunk's coroutines start
CoolDown ==
    /\ bpc = "cooldown"
    /\ task' = ChunkTasks(items_to_fetch, chunk_start, semaphore.value, STEAM_SOURCES, cache)
    /\ semaphore' = [semaphore EXCEPT !.value = @ - HeldBy(task')]
    /\ bpc' = "gather"
    /\ UNCHANGED <<STEAM_SOURCES, cache, item_names, items_to_fetch,
                   steam_data_map, chunk_start, faults, rate_vars, lib_vars>>

\* a list that needs two chunks
LongList == [k \in 1 .. (chunk_size + 1) |-> IF k % 2 = 1 THEN "ak" ELSE "m4"]

\* the lists the batch is called with: none, one, the same twice, two, many
InputLists == {<<>>, <<"ak">>, <<"ak", "ak">>, <<"ak", "m4">>, LongList}

\* one call of batch_fetch_steam_prices_async(item_names, app_id, currency);
\* during the batch of LongList one answer at most is not DefaultAnswer
Init ==
    /\ \E en \in [Sources -> BOOLEAN] : STEAM_SOURCES = StaticConfig(en)
    /\ item_names \in InputLists
    /\ cache \in InitialCaches(Range(item_names))
    /\ semaphore = [created |-> FALSE, value |-> 0]
    /\ task = NoTasks
    /\ items_to_fetch = <<>>
    /\ steam_data_map = EmptyMap
    /\ chunk_start = 0
    /\ bpc = "init"
    /\ faults = IF item_names = LongList THEN 1 ELSE MaxFaults
    /\ NoCalls
    /\ NoLibrary

Next ==
    \/ BatchStart
    \/ \E t \in TaskIds : Acquire(t)
    \/ \E t \in TaskIds, r \in BatchResponses : Respond(t, r)
    \/ ChunkDone
    \/ CoolDown

Spec == Init /\ [][Next]_vars

\* The run under a fair event loop: a coroutine that can run does run (the
\* batch's own steps, the wake-up of a worker blocked at the semaphore), and
\* every request that was dispatched is answered, by a response, an error or
\* a timeout.
Fairness ==
    /\ WF_vars(BatchStart)
    /\ WF_vars(ChunkDone)
    /\ WF_vars(CoolDown)
    /\ \A t \in TaskIds : WF_vars(Acquire(t))
    /\ \A t \in TaskIds : WF_vars(\E r \in BatchResponses : Respond(t, r))

\* one call of the batch as in Init, with at most MaxFairFaults answers
\* that are not DefaultAnswer; the batch of LongList has both sources
\* enabled and an empty cache, so that it has two chunks
InitFair ==
    /\ \E en \in [Sources -> BOOLEAN] : STEAM_SOURCES = StaticConfig(en)
    /\ item_names \in InputLists
    /\ cache \in InitialCaches(Range(item_names))
    /\ item_names = LongList =>
          /\ \A s \in Sources : STEAM_SOURCES[s].enabled
          /\ cache = CacheWith({})
    /\ semaphore = [created |-> FALSE, value |-> 0]
    /\ task = NoTasks
    /\ items_to_fetch = <<>>
    /\ steam_data_map = EmptyMap
    /\ chunk_start = 0
    /\ bpc = "init"
    /\ faults = IF item_names = LongList THEN 1 ELSE MaxFairFaults
    /\ NoCalls
    /\ NoLibrary

SpecFair == InitFair /\ [][Next]_vars /\ Fairness

(***************************************************************************)
(* Properties of the rate controller, checked under SpecRate.              *)
(***************************************************************************)
\* the call of the step was adaptive_delay_adjustment(s, success, rate_limited)
Called(s, success, rate_limited) ==
    last_call' = [source |-> s, success |-> success, rate_limited |-> rate_limited]

\* C3: in every reachable state, for each source,
\* initial_delay <= current_delay <= max_delay, whatever the sequence of
\* rate-limited, success and plain-failure calls made from the static
\* configuration.
C3_DelayWithinBounds ==
    \A s \in Sources :
        /\ initial_delay(s) <= STEAM_SOURCES[s].current_delay
        /\ STEAM_SOURCES[s].current_delay <= max_delay(s)

\* a source whose delay was escalated up to max_delay, after a plain failure
C3_Witness ==
    \E s \in Sources :
        /\ STEAM_SOURCES[s].rate_limit_count >= 3
        /\ STEAM_SOURCES[s].current_delay = max_delay(s)
        /\ last_call = [source |-> s, success |-> FALSE, rate_limited |-> FALSE]

\* C4: a rate-limited call never decreases the source's current_delay, a
\* plain-success call never increases it, and the delay they leave is within
\* [initial_delay, max_delay]; so the delay never decreases along a sequence
\* of rate-limited calls and never increases along a sequence of successes.
C4_DelayMonotone ==
    [][\A s \in Sources :
          /\ (\E success \in BOOLEAN : Called(s, success, TRUE)) =>
                STEAM_SOURCES'[s].current_delay >= STEAM_SOURCES[s].current_delay
          /\ Called(s, TRUE, FALSE) =>
                STEAM_SOURCES'[s].current_delay <= STEAM_SOURCES[s].current_delay
          /\ initial_delay(s) <= STEAM_SOURCES'[s].current_delay
          /\ STEAM_SOURCES'[s].current_delay <= max_delay(s)]_vars

\* a delay that went up by one rate limit and then down by one success
C4_Witness ==
    \E s \in Sources :
        /\ STEAM_SOURCES[s].rate_limit_count = 1
        /\ STEAM_SOURCES[s].current_delay = MulRound(2 * initial_delay(s), 95, 100)
        /\ last_call = [source |-> s, success |-> TRUE, rate_limited |-> FALSE]

\* C5: adaptive_delay_adjustment(source, success, rate_limited=True) sets
\* current_delay to min(current_delay * ADAPTIVE_DELAY_MULTIPLIER, max_delay)
\* and adds exactly 1 to rate_limit_count, whatever the success flag.
C5_RateLimitedEscalates ==
    [][\A s \in Sources, success \in BOOLEAN :
          Called(s, success, TRUE) =>
             /\ STEAM_SOURCES'[s].current_delay =
                   IF STEAM_SOURCES[s].current_delay * ADAPTIVE_DELAY_MULTIPLIER <= max_delay(s)
                   THEN STEAM_SOURCES[s].current_delay * ADAPTIVE_DELAY_MULTIPLIER
                   ELSE max_delay(s)
             /\ STEAM_SOURCES'[s].rate_limit_count = STEAM_SOURCES[s].rate_limit_count + 1]_vars

\* a rate-limited call with success = True has capped the delay at max_delay
C5_Witness ==
    \E s \in Sources :
        /\ last_call = [source |-> s, success |-> TRUE, rate_limited |-> TRUE]
        /\ STEAM_SOURCES[s].rate_limit_count >= 3
        /\ STEAM_SOURCES[s].current_delay = max_delay(s)

\* C6: adaptive_delay_adjustment(source, True, False) sets current_delay to
\* max(current_delay * DELAY_RECOVERY_FACTOR, initial_delay): the delay
\* decays, and is never set below initial_delay.
C6_SuccessRecovers ==
    [][\A s \in Sources :
          Called(s, TRUE, FALSE) =>
             /\ STEAM_SOURCES'[s].current_delay =
                   IF MulRound(STEAM_SOURCES[s].current_delay, DELAY_RECOVERY_FACTOR, 100)
                         >= initial_delay(s)
                   THEN MulRound(STEAM_SOURCES[s].current_delay, DELAY_RECOVERY_FACTOR, 100)
                   ELSE initial_delay(s)
             /\ STEAM_SOURCES'[s].current_delay >= initial_delay(s)
             /\ STEAM_SOURCES'[s].current_delay <= STEAM_SOURCES[s].current_delay]_vars

\* a delay escalated once has decayed until the floor stopped it
C6_Witness ==
    \E s \in Sources :
        /\ last_call = [source |-> s, success |-> TRUE, rate_limited |-> FALSE]
        /\ STEAM_SOURCES[s].rate_limit_count = 1
        /\ STEAM_SOURCES[s].current_delay = initial_delay(s)

\* C7, as stated: adaptive_delay_adjustment(source, False, False) leaves
\* current_delay unchanged and adds one to the source's error_count.
C7_PlainFailureCountsError ==
    [][\A s \in Sources :
          Called(s, FALSE, FALSE) =>
             /\ STEAM_SOURCES'[s].current_delay = STEAM_SOURCES[s].current_delay
             /\ STEAM_SOURCES'[s].error_count = STEAM_SOURCES[s].error_count + 1]_vars

\* C7, amended: adaptive_delay_adjustment(source, False, False) changes
\* nothing: current_delay and every counter of every source, error_count
\* included, stay as they were.
C7_PlainFailureChangesNothing ==
    [][\A s \in Sources :
          Called(s, FALSE, FALSE) => STEAM_SOURCES' = STEAM_SOURCES]_vars

\* a plain failure was reported for a source with an escalated delay
C7_Witness ==
    \E s \in Sources :
        /\ last_call = [source |-> s, success |-> FALSE, rate_limited |-> FALSE]
        /\ STEAM_SOURCES[s].rate_limit_count = 1
        /\ STEAM_SOURCES[s].current_delay = 2 * initial_delay(s)
        /\ STEAM_SOURCES[s].error_count = 0

(***************************************************************************)
(* Properties of one resolution, checked under SpecResolve.                *)
(***************************************************************************)
\* the quotes worker s can return
WorkerQuotes(s) ==
    {[current_price |-> Null, sales_7d |-> 0, source |-> s]} \cup
    {[current_price |-> p, sales_7d |-> 0, source |-> s] : p \in Prices}

\* worker s of task tk has returned
Returned(tk, s) == tk.returned[s] # NotCalled

LastAttemptFails(t) ==
    /\ t \in DOMAIN task
    /\ task[t].retry_attempt = max_retries - 1
    /\ \E r \in Responses : r.kind # "price" /\ Respond(t, r)

\* C8, as stated: when all max_retries attempts of a worker ended without a
\* price, the quote it returns has current_price = null and source = Error.
C8_ExhaustedTaggedError ==
    [][\A t \in TaskIds :
          LastAttemptFails(t) =>
             /\ task'[t].returned[task[t].source].current_price = Null
             /\ task'[t].returned[task[t].source].source = "error"]_vars

\* C8, amended: when all max_retries attempts of a worker ended without a
\* price, the quote it returns has current_price = null, sales_7d = 0 and
\* the worker's own source tag (steam_direct or steam_render).
C8_ExhaustedKeepsOwnTag ==
    [][\A t \in TaskIds :
          LastAttemptFails(t) =>
             task'[t].returned[task[t].source] =
                [current_price |-> Null, sales_7d |-> 0, source |-> task[t].source]]_vars

\* the direct worker returned without a price after max_retries rate limits
C8_Witness ==
    \E t \in DOMAIN task :
        /\ Returned(task[t], "steam_direct")
        /\ task[t].returned["steam_direct"].current_price = Null
        /\ STEAM_SOURCES["steam_direct"].rate_limit_count = max_retries

\* C9: a 200 answer that is well formed and carries no price is terminal:
\* the worker returns its empty quote at once and makes no further attempt.
C9_NoPriceIsTerminal ==
    [][\A t \in TaskIds :
          Respond(t, [kind |-> "no_price", price |-> 0]) =>
             /\ Returned(task'[t], task[t].source)
             /\ task'[t].returned[task[t].source] = EmptyQuote(task[t].source)]_vars

\* every enabled source was tried for task tk and none gave a price
AllSourcesFailed(tk) ==
    /\ tk.pc = "done"
    /\ \E s \in Sources : STEAM_SOURCES[s].enabled
    /\ \A s \in Sources :
          STEAM_SOURCES[s].enabled => Returned(tk, s) /\ ~HasPrice(tk.returned[s])

\* the quote of the last source tried for task tk
LastReturned(tk) ==
    IF STEAM_SOURCES["steam_render"].enabled
    THEN tk.returned["steam_render"]
    ELSE tk.returned["steam_direct"]

\* C10, as stated: when every enabled source was tried and none gave a
\* price, the coordinator returns the empty quote of the last source tried,
\* with that worker's source tag.
C10_ReturnsLastWorkersQuote ==
    \A t \in DOMAIN task :
        AllSourcesFailed(task[t]) => task[t].result = LastReturned(task[t])

\* C10, amended: when every enabled source was tried and none gave a price,
\* the coordinator returns a record it builds itself, with current_price =
\* null, sales_7d = 0 and source = "none": the last worker's empty quote in
\* every field but the source tag.
C10_ReturnsNoneRecord ==
    \A t \in DOMAIN task :
        AllSourcesFailed(task[t]) =>
            /\ task[t].result = [current_price |-> Null, sales_7d |-> 0, source |-> "none"]
            /\ task[t].result = [LastReturned(task[t]) EXCEPT !.source = "none"]
            /\ task[t].result # LastReturned(task[t])

\* both sources enabled, both workers exhausted, the coordinator returned
C10_Witness ==
    \E t \in DOMAIN task :
        /\ AllSourcesFailed(task[t])
        /\ \A s \in Sources : STEAM_SOURCES[s].enabled
        /\ task[t].returned["steam_render"] = EmptyQuote("steam_render")

(***************************************************************************)
(* Properties of the batch, checked under Spec.                            *)
(***************************************************************************)
\* the source tags a quote can carry
SourceTags == Sources \cup {"none", "error"}

\* C1: the map batch_fetch_steam_prices_async returns has an entry for every
\* requested item, from the cache or from its fetch; an item whose fetch
\* failed has an entry with current_price = null and a source tag, and is
\* never absent.
C1_EveryItemHasEntry ==
    bpc = "done" =>
        /\ DOMAIN steam_data_map = Range(item_names)
        /\ \A i \in Range(item_names) :
              /\ steam_data_map[i].source \in SourceTags
              /\ \/ steam_data_map[i].current_price \in Prices
                 \/ steam_data_map[i].current_price = Null

\* the batch returned with one item priced and another whose fetch failed
C1_Witness ==
    /\ bpc = "done"
    /\ \E i, j \in Range(item_names) :
          /\ i \in DOMAIN steam_data_map
          /\ j \in DOMAIN steam_data_map
          /\ steam_data_map[i].current_price = Null
          /\ steam_data_map[j].current_price \in Prices

\* worker s of task tk is between its call and its return
Running(tk, s) == tk.pc \in {"wait", "attempt"} /\ tk.source = s

\* worker s of task tk was called
Queried(tk, s) == Running(tk, s) \/ Returned(tk, s)

\* C11: the coordinator calls the direct worker before the render worker,
\* never calls the worker of a source whose enabled flag is false, never calls
\* the render worker once the direct worker returned a price, and always
\* calls the render worker, when render is enabled, once the direct worker
\* returned without a price.
C11_SourceOrder ==
    \A t \in DOMAIN task :
        /\ \A s \in Sources : Queried(task[t], s) => STEAM_SOURCES[s].enabled
        /\ Queried(task[t], "steam_render") =>
              \/ ~STEAM_SOURCES["steam_direct"].enabled
              \/ Returned(task[t], "steam_direct")
        /\ HasPrice(task[t].returned["steam_direct"]) => ~Queried(task[t], "steam_render")
        /\ ( /\ Returned(task[t], "steam_direct")
             /\ ~HasPrice(task[t].returned["steam_direct"])
             /\ STEAM_SOURCES["steam_render"].enabled ) => Queried(task[t], "steam_render")
        /\ task[t].pc = "start" \/ Queried(task[t], "steam_direct")
              \/ ~STEAM_SOURCES["steam_direct"].enabled

\* the direct worker returned without a price and the render worker is at work
C11_Witness ==
    \E t \in DOMAIN task :
        /\ Returned(task[t], "steam_direct")
        /\ ~HasPrice(task[t].returned["steam_direct"])
        /\ Running(task[t], "steam_render")
        /\ task[t].retry_attempt > 0

\* the step calls worker s of task t while the cache holds an entry for it
CalledOnHit(t, s) ==
    /\ t \in DOMAIN task
    /\ ~Queried(task[t], s)
    /\ Queried(task'[t], s)
    /\ cache[CacheKey(s, task[t].item)] # NoEntry

\* C12: a worker called while the cache holds an entry for its source and
\* item returns that entry at once: it makes no attempt (no request, no
\* sleep), takes no permit of the semaphore, and leaves the source's
\* current_delay and counters, and the entry, as they were.
C12_CacheHitShortCircuits ==
    [][\A t \in TaskIds, s \in Sources :
          CalledOnHit(t, s) =>
             /\ task'[t].returned[s] = cache[CacheKey(s, task[t].item)]
             /\ ~Running(task'[t], s)
             /\ Held(task'[t]) = 0
             /\ semaphore'.value = semaphore.value + Held(task[t])
             /\ STEAM_SOURCES'[s] = STEAM_SOURCES[s]
             /\ cache'[CacheKey(s, task[t].item)] = cache[CacheKey(s, task[t].item)]]_vars

\* the direct worker gave up and the render worker answered from the cache
C12_Witness ==
    \E t \in DOMAIN task :
        /\ Returned(task[t], "steam_direct")
        /\ ~HasPrice(task[t].returned["steam_direct"])
        /\ task[t].returned["steam_render"] = cache[CacheKey("steam_render", task[t].item)]
        /\ STEAM_SOURCES["steam_render"].success_count = 0
        /\ task[t].result = task[t].returned["steam_render"]

\* position t is the last of its item among the positions of the chunk
LastOfItem(t) == \A u \in DOMAIN task : task[u].item = task[t].item => u <= t

\* C13: an exception that leaves one item's resolution touches no other
\* resolution of the chunk; when the chunk is gathered the item is recorded
\* with current_price = null and source = error, every other item of the
\* chunk with its own result, and the batch goes on to the next chunk when
\* items remain.
C13_ExceptionIsolated ==
    [][/\ \A t \in TaskIds :
             Respond(t, Unexpected) =>
                /\ task'[t].pc = "raised"
                /\ \A u \in DOMAIN task \ {t} : task'[u] = task[u]
                /\ bpc' = "gather"
       /\ ChunkDone =>
             /\ \A t \in DOMAIN task :
                   LastOfItem(t) =>
                      steam_data_map'[task[t].item] =
                         IF task[t].pc = "raised"
                         THEN [current_price |-> Null, sales_7d |-> 0, source |-> "error"]
                         ELSE task[t].result
             /\ \A t \in DOMAIN task : task[t].pc = "raised" \/ task[t].result # NotCalled
             /\ ChunkEnd(chunk_start, Len(items_to_fetch)) < Len(items_to_fetch) =>
                   bpc' = "cooldown"]_vars

\* a resolution of the first chunk raised, its siblings and the second chunk
\* were resolved, and the batch returned
C13_Witness ==
    /\ bpc = "done"
    /\ chunk_start = chunk_size
    /\ \E i, j \in DOMAIN steam_data_map :
          /\ steam_data_map[i].source = "error"
          /\ HasPrice(steam_data_map[j])

\* the cache holds an entry of some source for every item of names
AllCached(names) ==
    \A i \in Range(names) : \E s \in Sources : cache[CacheKey(s, i)] # NoEntry

\* C14: called with the empty list, or with a list whose items are all in the
\* cache, the batch returns at once (the empty map for the empty list, the
\* cached quotes otherwise): no semaphore is created or acquired, no
\* resolution is started, no request is answered.
C14_NoMissesNoMachinery ==
    [][(BatchStart /\ AllCached(item_names)) =>
          /\ bpc' = "done"
          /\ ~semaphore'.created
          /\ task' = NoTasks
          /\ DOMAIN steam_data_map' = Range(item_names)
          /\ \A i \in Range(item_names) :
                \E s \in Sources : steam_data_map'[i] = cache[CacheKey(s, i)]
          /\ UNCHANGED <<STEAM_SOURCES, cache, faults>>]_vars

\* the batch returned two cached items and made no semaphore
C14_Witness ==
    /\ bpc = "done"
    /\ ~semaphore.created
    /\ Cardinality(DOMAIN steam_data_map) = 2
    /\ faults = MaxFaults

(***************************************************************************)
(* The cache key as a function of its four arguments, under SpecKey.       *)
(***************************************************************************)
\* the fetch engine is not running
EngineIdle ==
    /\ STEAM_SOURCES = StaticConfig([s \in Sources |-> TRUE])
    /\ cache = [k \in CacheKeys |-> NoEntry]
    /\ semaphore = [created |-> FALSE, value |-> 0]
    /\ task = NoTasks
    /\ NoBatch
    /\ faults = 0
    /\ NoCalls

engine_vars == <<STEAM_SOURCES, cache, semaphore, task, faults, batch_vars, rate_vars>>

\* the strings over alphabet of length at most n
RECURSIVE StringsUpTo(_, _)
StringsUpTo(alphabet, n) ==
    IF n = 0
    THEN {<<>>}
    ELSE StringsUpTo(alphabet, n - 1) \cup
         {w \o <<ch>> : w \in StringsUpTo(alphabet, n - 1), ch \in alphabet}

\* the characters of the model's item names: a letter, a digit, the separator
NameChars == {"k", "7", "_"}

\* the arguments _cache_key_for_steam is called with: a source of
\* STEAM_SOURCES, a market name, a currency code, the app id of a game
KeyArgs ==
    [source : {Chars(s) : s \in Sources},
     skin_name : StringsUpTo(NameChars, MaxNameLen),
     currency : {Chars("USD"), Chars("EUR")},
     app_id : {730, 570}]

KeyOf(a) == cache_key_for_steam(a.source, a.skin_name, a.currency, a.app_id)

InitKey ==
    /\ EngineIdle
    /\ files = <<>>
    /\ clock = 0
    /\ arg \in [a : KeyArgs, b : KeyArgs]
    /\ ret = <<>>

\* the keys of the two argument tuples are computed
ComputeKeys ==
    /\ ret = <<>>
    /\ ret' = [a |-> KeyOf(arg.a), b |-> KeyOf(arg.b)]
    /\ UNCHANGED <<files, clock, arg, engine_vars>>

NextKey == ComputeKeys

SpecKey == InitKey /\ [][NextKey]_vars

\* C18: the cache key is a function of (source, item, currency, app id)
\* that gives equal keys for equal tuples and different keys for different
\* tuples, because the strings that are hashed differ; for sources of
\* STEAM_SOURCES, currency codes and app ids of games.
C18_KeyInjective ==
    ret # <<>> => ((arg.a = arg.b) <=> (ret.a = ret.b))

\* two names that differ by where the separator stands got different keys
C18_Witness ==
    /\ ret # <<>>
    /\ arg.a.skin_name = <<"k", "_">>
    /\ arg.b.skin_name = <<"_", "k">>
    /\ [arg.a EXCEPT !.skin_name = <<>>] = [arg.b EXCEPT !.skin_name = <<>>]
    /\ ret.a # ret.b

(***************************************************************************)
(* cache_manager: the files of CACHE_DIR.  The text of a file is modelled  *)
(* by the sequence of its JSON tokens; files is the directory: its domain  *)
(* is the set of keys whose file exists.                                   *)
(***************************************************************************)
Token(type, num, str) == [type |-> type, num |-> num, str |-> str]

LBrace == Token("{", 0, "")
RBrace == Token("}", 0, "")
LBracket == Token("[", 0, "")
RBracket == Token("]", 0, "")

\* a JSON string (an object key, or a str value)
StrToken(str) == Token("str", 0, str)

\* bytes that are not UTF-8: path.read_text(encoding="utf8") raises on them
BadBytes == Token("bad_utf8", 0, "")

\* variant: None is written as Python prints it
ReprValue(x) ==
    IF x = Null THEN Token("None", 0, "") ELSE Token("num", x, "")

\* json.dumps of a number or None
JsonValue(x) ==
    IF x = Null THEN Token("null", 0, "") ELSE Token("num", x, "")

\* The Python values given to save_cache: a quote (a dict with the keys
\* current_price, sales_7d and source), a list and a tuple of numbers.  A
\* sequence value carries the field py with the name of its Python type.
PyList(items) == [py |-> "list", items |-> items]
PyTuple(items) == [py |-> "tuple", items |-> items]

IsSequence(data) == "py" \in DOMAIN data

\* json.dumps(data, indent=2): a dict is written as an object, a list and a
\* tuple are both written as an array
Dumps(data) ==
    IF IsSequence(data)
    THEN <<LBracket>> \o [n \in 1 .. Len(data.items) |-> JsonValue(data.items[n])]
                     \o <<RBracket>>
    ELSE <<LBrace,
           StrToken("current_price"), JsonValue(data.current_price),
           StrToken("sales_7d"), JsonValue(data.sales_7d),
           StrToken("source"), StrToken(data.source),
           RBrace>>

\* text is the JSON text of an object with the three fields of a quote
WellFormedObject(text) ==
    /\ Len(text) = 8
    /\ text[1] = LBrace
    /\ text[8] = RBrace
    /\ text[2] = StrToken("current_price")
    /\ text[4] = StrToken("sales_7d")
    /\ text[6] = StrToken("source")
    /\ text[3].type \in {"null", "num"}
    /\ text[5].type \in {"null", "num"}
    /\ text[7].type = "str"

\* text is the JSON text of an array of numbers and nulls
WellFormedArray(text) ==
    /\ Len(text) >= 2
    /\ text[1] = LBracket
    /\ text[Len(text)] = RBracket
    /\ \A n \in 2 .. Len(text) - 1 : text[n].type \in {"null", "num"}

\* json.loads(text) raises no JSONDecodeError
WellFormed(text) == WellFormedObject(text) \/ WellFormedArray(text)

\* the Python value of a JSON number or null
PyValue(tok) == IF tok.type = "null" THEN Null ELSE tok.num

\* json.loads(text) of a well-formed text: an object becomes a dict, an
\* array becomes a list
Loads(text) ==
    IF text[1] = LBracket
    THEN PyList([n \in 1 .. Len(text) - 2 |-> PyValue(text[n + 1])])
    ELSE [current_price |-> PyValue(text[3]),
          sales_7d |-> PyValue(text[5]),
          source |-> text[7].str]

\* path.unlink()
Unlink(F, key) == [k \in DOMAIN F \ {key} |-> F[k]]

\* variant: an entry is expired as soon as its age reaches ttl
ExpiredAtTtl(age, ttl) == age >= ttl

\* "if age > ttl"
Expired(age, ttl) == age > ttl

\* The try block of load_cache(key, ttl) at time now, in the directory F: the
\* directory it leaves, the data it returns (NoEntry for None), and the
\* exception it raises.
TryLoad(F, now, key, ttl) ==
    IF key \notin DOMAIN F
    THEN [files |-> F, value |-> NoEntry, exc |-> "none"]
    ELSE IF Expired(now - F[key].mtime, ttl)
    THEN [files |-> Unlink(F, key), value |-> NoEntry, exc |-> "none"]
    ELSE IF \E n \in 1 .. Len(F[key].text) : F[key].text[n] = BadBytes
    THEN [files |-> F, value |-> NoEntry, exc |-> "UnicodeDecodeError"]
    ELSE IF ~WellFormed(F[key].text)
    THEN [files |-> F, value |-> NoEntry, exc |-> "JSONDecodeError"]
    ELSE [files |-> F, value |-> Loads(F[key].text), exc |-> "none"]

\* variant: load_cache with its first except clause only
OnlyJsonErrorsCaught(exc) == exc = "JSONDecodeError"

\* the except clauses of load_cache: json.JSONDecodeError, Exception
LoadCatches(exc) == exc \in {"JSONDecodeError", "UnicodeDecodeError"}

\* load_cache(key, ttl): the directory it leaves, what it returns, and
\* whether an exception leaves it
LoadCache(F, now, key, ttl) ==
    LET try == TryLoad(F, now, key, ttl)
    IN  IF try.exc = "none"
        THEN [files |-> try.files, value |-> try.value, raised |-> FALSE]
        ELSE IF ~LoadCatches(try.exc)
        THEN [files |-> F, value |-> NoEntry, raised |-> TRUE]
        ELSE IF try.exc = "JSONDecodeError"
        THEN [files |-> Unlink(F, key), value |-> NoEntry, raised |-> FALSE]
        ELSE [files |-> F, value |-> NoEntry, raised |-> FALSE]

\* save_cache(key, data) at time now: the directory it leaves
WriteCache(F, now, key, data) ==
    [k \in DOMAIN F \cup {key} |->
        IF k = key THEN [text |-> Dumps(data), mtime |-> now] ELSE F[k]]

\* variant: max_age_hours is compared with the age in seconds
MaxAgeUnconverted(max_age_hours) == max_age_hours

\* max_age_seconds = max_age_hours * 3600
MaxAgeSeconds(max_age_hours) == max_age_hours * 3600

\* the files clear_expired_cache(max_age_hours) unlinks at time now
Swept(F, now, max_age_hours) ==
    {k \in DOMAIN F : now - F[k].mtime > MaxAgeSeconds(max_age_hours)}

\* clear_expired_cache(max_age_hours) at time now: the directory it leaves
ClearExpiredCache(F, now, max_age_hours) ==
    [k \in DOMAIN F \ Swept(F, now, max_age_hours) |-> F[k]]

\* the keys, payloads, ttl (seconds) and max_age_hours SpecCache calls with
DiskKeys == {CacheKey(s, "ak") : s \in Sources}
Payloads ==
    {PricedQuote("steam_direct", 1), EmptyQuote("steam_direct"),
     PyList(<<1, Null>>), PyTuple(<<1, Null>>)}
TTLs == {1800, 3600}
SweepHours == {0, 1}

NoKey == [sha256 |-> <<>>]

\* the record of a call: its name and arguments, what it returned, whether
\* it raised, and how many files it unlinked
CallRecord(op, key, ttl, value, raised, count) ==
    [op |-> op, key |-> key, ttl |-> ttl, value |-> value, raised |-> raised,
     count |-> count]

InitCache ==
    /\ EngineIdle
    /\ files = <<>>
    /\ clock = 0
    /\ arg = <<>>
    /\ ret = CallRecord("none", NoKey, 0, NoEntry, FALSE, 0)

\* save_cache(key, data)
Save(key, data) ==
    /\ files' = WriteCache(files, clock, key, data)
    /\ ret' = CallRecord("save", key, 0, data, FALSE, 0)
    /\ UNCHANGED <<clock, arg, engine_vars>>

\* load_cache(key, ttl)
Load(key, ttl) ==
    /\ files' = LoadCache(files, clock, key, ttl).files
    /\ ret' = CallRecord("load", key, ttl, LoadCache(files, clock, key, ttl).value,
                         LoadCache(files, clock, key, ttl).raised, 0)
    /\ UNCHANGED <<clock, arg, engine_vars>>

\* clear_expired_cache(max_age_hours)
Sweep(max_age_hours) ==
    /\ files' = ClearExpiredCache(files, clock, max_age_hours)
    /\ ret' = CallRecord("sweep", NoKey, max_age_hours, NoEntry, FALSE,
                         Cardinality(Swept(files, clock, max_age_hours)))
    /\ UNCHANGED <<clock, arg, engine_vars>>

\* half an hour passes
Tick ==
    /\ clock < MaxTicks * 1800
    /\ clock' = clock + 1800
    /\ ret' = CallRecord("tick", NoKey, 0, NoEntry, FALSE, 0)
    /\ UNCHANGED <<files, arg, engine_vars>>

\* what damage leaves of a text: its beginning, or bytes that are no UTF-8
DamagedTexts(text) == {SubSeq(text, 1, Len(text) - 1), <<BadBytes>>}

\* the file of key is damaged from outside (a write cut short, a bad sector)
Damage(key) ==
    /\ key \in DOMAIN files
    /\ WellFormed(files[key].text)
    /\ \E text \in DamagedTexts(files[key].text) :
          files' = [files EXCEPT ![key].text = text]
    /\ ret' = CallRecord("damage", key, 0, NoEntry, FALSE, 0)
    /\ UNCHANGED <<clock, arg, engine_vars>>

NextCache ==
    \/ \E key \in DiskKeys, data \in Payloads : Save(key, data)
    \/ \E key \in DiskKeys, ttl \in TTLs : Load(key, ttl)
    \/ \E max_age_hours \in SweepHours : Sweep(max_age_hours)
    \/ Tick
    \/ \E key \in DiskKeys : Damage(key)

SpecCache == InitCache /\ [][NextCache]_vars

(***************************************************************************)
(* Properties of the cache, checked under SpecCache.                       *)
(***************************************************************************)
\* the file of key exists and holds the JSON text of a payload
Intact(key) ==
    /\ key \in DOMAIN files
    /\ \E data \in Payloads : files[key].text = Dumps(data)

\* the file of key exists and does not hold the JSON text of a payload
Corrupt(key) == key \in DOMAIN files /\ ~Intact(key)

\* the age of the file of key
Age(key) == clock - files[key].mtime

\* C15 as the specification states it: save_cache(k, v) followed
\* immediately by load_cache(k, ttl) with ttl > 0 returns v unchanged, for
\* every key k and every payload v that json.dumps accepts.
C15_SaveThenLoad ==
    [][\A key \in DiskKeys, data \in Payloads, ttl \in TTLs :
          (ret = CallRecord("save", key, 0, data, FALSE, 0) /\ ttl > 0
             /\ Load(key, ttl)) =>
             ret'.value = data]_vars

\* what json.loads returns for the text json.dumps wrote of data
AsJson(data) == IF IsSequence(data) THEN PyList(data.items) ELSE data

\* C15: save_cache(k, v) followed immediately by load_cache(k, ttl) with
\* ttl > 0 returns v unchanged when v is a dict with string keys or a
\* list, and returns the list of the items of v when v is a tuple; the
\* read raises nothing and leaves the file in place.
C15_SaveThenLoadAsJson ==
    [][\A key \in DiskKeys, data \in Payloads, ttl \in TTLs :
          (ret = CallRecord("save", key, 0, data, FALSE, 0) /\ ttl > 0
             /\ Load(key, ttl)) =>
             /\ ret'.value = AsJson(data)
             /\ (data # PyTuple(<<1, Null>>) => ret'.value = data)
             /\ ~ret'.raised
             /\ files' = files]_vars

\* a list or a tuple was saved over an older file and read back at once as a list
C15_Witness ==
    /\ ret.op = "load"
    /\ ret.value = PyList(<<1, Null>>)
    /\ ret.key \in DOMAIN files
    /\ files[ret.key].mtime = clock
    /\ clock > 0

\* C16: load_cache(k, ttl) of an entry whose age exceeds ttl is a miss and
\* deletes the entry, so that a second load_cache(k, ttl) finds no file and
\* is a miss without error; an entry whose age is at most ttl is returned
\* and left in place.
C16_TtlDecidesHit ==
    [][\A key \in DiskKeys, ttl \in TTLs :
          Load(key, ttl) =>
             /\ (key \in DOMAIN files /\ Age(key) > ttl) =>
                   /\ ret'.value = NoEntry
                   /\ key \notin DOMAIN files'
             /\ (Intact(key) /\ Age(key) <= ttl) =>
                   /\ files[key].text = Dumps(ret'.value)
                   /\ files' = files
             /\ key \notin DOMAIN files =>
                   /\ ret'.value = NoEntry
                   /\ files' = files
             /\ ~ret'.raised]_vars

\* an entry whose age is exactly ttl was returned
C16_Witness ==
    /\ ret.op = "load"
    /\ ret.value # NoEntry
    /\ ret.key \in DOMAIN files
    /\ clock - files[ret.key].mtime = ret.ttl

\* C17: load_cache raises nothing; a missing entry and a corrupt entry are
\* misses; and a corrupt entry is deleted by the read.
C17_CorruptDeleted ==
    [][\A key \in DiskKeys, ttl \in TTLs :
          Load(key, ttl) =>
             /\ ~ret'.raised
             /\ (key \notin DOMAIN files \/ Corrupt(key)) => ret'.value = NoEntry
             /\ Corrupt(key) => key \notin DOMAIN files']_vars

\* C19: clear_expired_cache(max_age_hours) deletes every entry older than
\* max_age_hours hours and leaves every other entry as it was; no ttl
\* enters the decision.
C19_SweepByAge ==
    [][\A max_age_hours \in SweepHours :
          Sweep(max_age_hours) =>
             \A key \in DOMAIN files :
                IF Age(key) > max_age_hours * 3600
                THEN key \notin DOMAIN files'
                ELSE key \in DOMAIN files' /\ files'[key] = files[key]]_vars

\* a sweep deleted one entry and kept another that is half an hour old
C19_Witness ==
    /\ ret.op = "sweep"
    /\ ret.count = 1
    /\ \E key \in DOMAIN files : Age(key) = 1800

(***************************************************************************)
(* data_analysis: the fee-aware arbitrage classification.  Prices are in   *)
(* cents and percentages are fractions num / den with den > 0, so that     *)
(* the comparisons of the ladder are exact; the code computes in binary    *)
(* floating point, whose profit_percentage may differ from the fraction    *)
(* in the last place.                                                      *)
(***************************************************************************)
\* config.py, STEAM_FEE_RATE = 0.15, in percent
STEAM_FEE_RATE == 15
MIN_PROFIT_PERCENTAGE == 10
GOOD_PROFIT_PERCENTAGE == 20
HIGH_VOLUME_THRESHOLD == 50

RECURSIVE Gcd(_, _)
\* the greatest common divisor of two naturals, not both zero
Gcd(a, b) == IF b = 0 THEN a ELSE Gcd(b, a % b)

\* the number num / den (den > 0), in lowest terms
Fraction(num, den) ==
    LET g == Gcd(IF num < 0 THEN -num ELSE num, den)
    IN  [num |-> num \div g, den |-> den \div g]

\* variant: a threshold is met only when it is exceeded
MoreThan(q, threshold) == q.num > threshold * q.den

\* "profit_percentage >= threshold"
AtLeast(q, threshold) == q.num >= threshold * q.den

\* "if not steam_price or steam_price <= 0"
NoSteamPrice(steam_price) ==
    steam_price = Null \/ steam_price = 0 \/ steam_price <= 0

\* variant: the Steam fee is not deducted
ProceedsWithoutFee(steam_price) == Fraction(steam_price * 100, 100)

\* steam_fee_amount = steam_price * STEAM_FEE_RATE and
\* net_steam_proceeds = steam_price - steam_fee_amount, in cents
NetSteamProceeds(steam_price) ==
    Fraction(steam_price * 100 - steam_price * STEAM_FEE_RATE, 100)

\* gross_profit = net_steam_proceeds - skinport_price, in cents
GrossProfit(skinport_price, steam_price) ==
    Fraction(NetSteamProceeds(steam_price).num
                - skinport_price * NetSteamProceeds(steam_price).den,
             NetSteamProceeds(steam_price).den)

\* profit_percentage = (gross_profit / skinport_price) * 100 if
\* skinport_price > 0 else 0
ProfitPercentage(skinport_price, steam_price) ==
    IF skinport_price > 0
    THEN Fraction(GrossProfit(skinport_price, steam_price).num * 100,
                  GrossProfit(skinport_price, steam_price).den * skinport_price)
    ELSE Fraction(0, 1)

\* the if / elif ladder of compute_fee_aware_arbitrage_opportunity
Opportunity(profit_percentage, skinport_volume) ==
    IF /\ AtLeast(profit_percentage, GOOD_PROFIT_PERCENTAGE)
       /\ skinport_volume >= HIGH_VOLUME_THRESHOLD
    THEN "EXCELLENT_BUY"
    ELSE IF /\ AtLeast(profit_percentage, MIN_PROFIT_PERCENTAGE)
            /\ skinport_volume >= HIGH_VOLUME_THRESHOLD
    THEN "GOOD_BUY"
    ELSE IF AtLeast(profit_percentage, MIN_PROFIT_PERCENTAGE)
    THEN "GOOD_BUY_LOW_VOL"
    ELSE IF AtLeast(profit_percentage, 5)
    THEN "MARGINAL_PROFIT"
    ELSE IF AtLeast(profit_percentage, 0)
    THEN "BREAKEVEN"
    ELSE IF AtLeast(profit_percentage, -10)
    THEN "SMALL_LOSS"
    ELSE "OVERPRICED"

\* compute_fee_aware_arbitrage_opportunity(skinport_price, steam_price,
\* skinport_volume): the class and the profit percentage it returns, and
\* net_steam_proceeds and gross_profit of the breakdown it returns
compute_fee_aware_arbitrage_opportunity(skinport_price, steam_price, skinport_volume) ==
    IF NoSteamPrice(steam_price)
    THEN [opportunity |-> "NO_STEAM_DATA", profit_percentage |-> Fraction(0, 1),
          net_steam_proceeds |-> Fraction(0, 1), gross_profit |-> Fraction(0, 1)]
    ELSE [opportunity |->
              Opportunity(ProfitPercentage(skinport_price, steam_price),
                          skinport_volume),
          profit_percentage |-> ProfitPercentage(skinport_price, steam_price),
          net_steam_proceeds |-> NetSteamProceeds(steam_price),
          gross_profit |-> GrossProfit(skinport_price, steam_price)]

\* the prices (cents) and volumes the classification is applied to: with the
\* price 85 the profit percentage is steam_price - 100, with 170 it is
\* steam_price / 2 - 100; and the prices 10.00 and 13.00
SkinportPrices == {0, 85, 170, 1000}
SteamPrices == {Null, 1300} \cup (0 .. MaxCents)
Volumes == {0, 10, 49, 50, 60}

InitArbitrage ==
    /\ EngineIdle
    /\ files = <<>>
    /\ clock = 0
    /\ arg \in [skinport_price : SkinportPrices, steam_price : SteamPrices,
                skinport_volume : Volumes]
    /\ ret = <<>>

\* the item is classified
Classify ==
    /\ ret = <<>>
    /\ ret' = compute_fee_aware_arbitrage_opportunity(
                  arg.skinport_price, arg.steam_price, arg.skinport_volume)
    /\ UNCHANGED <<files, clock, arg, engine_vars>>

NextArbitrage == Classify

SpecArbitrage == InitArbitrage /\ [][NextArbitrage]_vars

\* the classes of an item that has a Steam price
ProfitClasses ==
    {"EXCELLENT_BUY", "GOOD_BUY", "GOOD_BUY_LOW_VOL", "MARGINAL_PROFIT",
     "BREAKEVEN", "SMALL_LOSS", "OVERPRICED"}

\* the profit percentage p lies in the band from lo (included) to hi
InBand(p, lo, hi) == lo * p.den <= p.num /\ p.num < hi * p.den

\* C20: with a Steam price, the class is one of the seven profit classes
\* and is the one whose band holds the pair (profit percentage, volume):
\* the bands are disjoint and leave no gap, so that the class is a total,
\* single-valued function of the pair (20 with volume 60 is EXCELLENT_BUY,
\* 12 with volume 10 is GOOD_BUY_LOW_VOL, -15 is OVERPRICED); without a
\* Steam price (None, or a price of zero) the class is NO_STEAM_DATA
\* whatever the other inputs.
C20_ClassificationTotal ==
    ret # <<>> =>
       LET p == ret.profit_percentage
           high == arg.skinport_volume >= 50
           c == ret.opportunity
       IN  IF arg.steam_price = Null \/ arg.steam_price = 0
           THEN c = "NO_STEAM_DATA"
           ELSE /\ c \in ProfitClasses
                /\ c = "EXCELLENT_BUY" <=> (20 * p.den <= p.num /\ high)
                /\ c = "GOOD_BUY" <=> (InBand(p, 10, 20) /\ high)
                /\ c = "GOOD_BUY_LOW_VOL" <=> (10 * p.den <= p.num /\ ~high)
                /\ c = "MARGINAL_PROFIT" <=> InBand(p, 5, 10)
                /\ c = "BREAKEVEN" <=> InBand(p, 0, 5)
                /\ c = "SMALL_LOSS" <=> InBand(p, -10, 0)
                /\ c = "OVERPRICED" <=> p.num < (-10) * p.den

\* a profit of exactly 20 percent at volume 60 was classified EXCELLENT_BUY
C20_Witness ==
    /\ ret # <<>>
    /\ arg.steam_price # Null
    /\ ret.profit_percentage.num = 20 * ret.profit_percentage.den
    /\ arg.skinport_volume = 60
    /\ ret.opportunity = "EXCELLENT_BUY"

\* the fraction q is the number num / den
IsNumber(q, num, den) == q.num * den = num * q.den

\* C21: with a Steam price, net_steam_proceeds is steam_price * (1 - 0.15)
\* and, for a positive skinport_price, profit_percentage is
\* (net_steam_proceeds - skinport_price) / skinport_price * 100; for the
\* prices 10.00 and 13.00 that is net proceeds 11.05, gross profit 1.05 and
\* 10.5 percent, classified GOOD_BUY_LOW_VOL for a volume below 50 and
\* GOOD_BUY for a volume of 50 or more.
C21_FeeAwareProfit ==
    (ret # <<>> /\ arg.steam_price # Null /\ arg.steam_price > 0) =>
       LET net == ret.net_steam_proceeds
           pct == ret.profit_percentage
           buy == arg.skinport_price
       IN  /\ IsNumber(net, arg.steam_price * 85, 100)
           /\ buy > 0 =>
                 IsNumber(pct, (net.num - buy * net.den) * 100, buy * net.den)
           /\ (buy = 1000 /\ arg.steam_price = 1300) =>
                 /\ IsNumber(net, 1105, 1)
                 /\ IsNumber(ret.gross_profit, 105, 1)
                 /\ IsNumber(pct, 105, 10)
                 /\ ret.opportunity = IF arg.skinport_volume < 50
                                      THEN "GOOD_BUY_LOW_VOL"
                                      ELSE "GOOD_BUY"

\* the prices 10.00 and 13.00 were classified GOOD_BUY at volume 50
C21_Witness ==
    /\ ret # <<>>
    /\ arg.skinport_price = 1000
    /\ arg.steam_price = 1300
    /\ arg.skinport_volume = 50
    /\ ret.opportunity = "GOOD_BUY"

(***************************************************************************)
(* data_analysis: _normalize_score.  Numbers are in tenths.  An argument   *)
(* is a finite float, the float NaN, None, or a str that is no number.     *)
(***************************************************************************)
PyFloat(x) == [kind |-> "float", x |-> x]
NaN == [kind |-> "nan", x |-> 0]
PyNone == [kind |-> "None", x |-> 0]
PyText == [kind |-> "str", x |-> 0]

\* the exception float(value) raises
FloatRaises(value) ==
    IF value.kind = "None" THEN "TypeError"
    ELSE IF value.kind = "str" THEN "ValueError"
    ELSE "none"

\* a returned float: a finite number (a fraction) or NaN
Finite(q) == [kind |-> "float", q |-> q]
NaNResult == [kind |-> "nan", q |-> Fraction(0, 1)]

\* _normalize_score(value, min_val, max_val): every comparison with NaN is
\* false, so that NaN reaches the else branch, whose arithmetic gives NaN
normalize_score(value, min_val, max_val) ==
    IF FloatRaises(value) \in {"ValueError", "TypeError"}
    THEN Finite(Fraction(0, 1))
    ELSE IF value.kind # "nan" /\ value.x <= min_val
    THEN Finite(Fraction(0, 1))
    ELSE IF value.kind # "nan" /\ value.x >= max_val
    THEN Finite(Fraction(1, 1))
    ELSE IF value.kind = "nan"
    THEN NaNResult
    ELSE Finite(Fraction(value.x - min_val, max_val - min_val))

\* the arguments _normalize_score is applied to
NormValues == {PyFloat(x) : x \in -5 .. MaxTenths} \cup {NaN, PyNone, PyText}
MinVals == {0, 10}
MaxVals == {10, 30, 50}

InitNormalize ==
    /\ EngineIdle
    /\ files = <<>>
    /\ clock = 0
    /\ arg \in [value : NormValues, min_val : MinVals, max_val : MaxVals]
    /\ ret = <<>>

\* the value is normalized
Normalize ==
    /\ ret = <<>>
    /\ ret' = normalize_score(arg.value, arg.min_val, arg.max_val)
    /\ UNCHANGED <<files, clock, arg, engine_vars>>

NextNormalize == Normalize

SpecNormalize == InitNormalize /\ [][NextNormalize]_vars

\* C22: with min_val < max_val the result is a number of [0, 1]: 0 for a
\* value <= min_val, 1 for a value >= max_val, (value - min_val) /
\* (max_val - min_val) in between, and 0 for a value that is missing or is
\* not a number.
C22_NormalizedIntoUnitInterval ==
    (ret # <<>> /\ arg.min_val < arg.max_val) =>
       /\ ret.kind = "float"
       /\ 0 <= ret.q.num /\ ret.q.num <= ret.q.den
       /\ IF arg.value.kind # "float"
          THEN ret.q.num = 0
          ELSE IF arg.value.x <= arg.min_val
          THEN ret.q.num = 0
          ELSE IF arg.value.x >= arg.max_val
          THEN ret.q.num = ret.q.den
          ELSE ret.q.num * (arg.max_val - arg.min_val)
                  = (arg.value.x - arg.min_val) * ret.q.den

(***************************************************************************)
(* Properties of the batch's concurrency, checked under Spec.              *)
(***************************************************************************)
\* C23: during a run at most MAX_CONCURRENT_STEAM_REQUESTS resolutions are
\* inside an attempt (hold a permit); and the run has one semaphore for all
\* its chunks: once constructed it is not constructed again, and in every
\* chunk its free permits and the permits held add up to
\* MAX_CONCURRENT_STEAM_REQUESTS.
C23_BoundedConcurrency ==
    /\ [](/\ HeldBy(task) <= MAX_CONCURRENT_STEAM_REQUESTS
          /\ semaphore.created =>
                /\ semaphore.value >= 0
                /\ semaphore.value + HeldBy(task) = MAX_CONCURRENT_STEAM_REQUESTS
          /\ ~semaphore.created => task = NoTasks)
    /\ [][semaphore.created => semaphore'.created]_vars

\* every permit is held while other resolutions of the chunk are blocked
C23_Witness ==
    /\ HeldBy(task) = MAX_CONCURRENT_STEAM_REQUESTS
    /\ semaphore.value = 0
    /\ Cardinality({t \in DOMAIN task : task[t].pc = "wait"}) >= 2

\* C24: no two resolutions of a run are for the same item, so that no two
\* requests for one cache key are in flight together and a key has one
\* writer: the misses are dispatched without duplicates.
C24_OneFetchPerKey ==
    /\ \A t, u \in DOMAIN task :
          (/\ task[t].pc = "attempt"
           /\ task[u].pc = "attempt"
           /\ CacheKey(task[t].source, task[t].item)
                 = CacheKey(task[u].source, task[u].item)) => t = u
    /\ \A m, n \in DOMAIN items_to_fetch :
          items_to_fetch[m] = items_to_fetch[n] => m = n

\* C26 as the specification states it: chunk_size is smaller than
\* MAX_CONCURRENT_STEAM_REQUESTS, and a chunk never holds more resolutions
\* than there are permits.
C26_ChunkFitsBudget ==
    /\ chunk_size < MAX_CONCURRENT_STEAM_REQUESTS
    /\ Cardinality(DOMAIN task) <= MAX_CONCURRENT_STEAM_REQUESTS

\* C26: chunk_size (8) is larger than MAX_CONCURRENT_STEAM_REQUESTS (3): a
\* chunk holds up to chunk_size resolutions, of which at most
\* MAX_CONCURRENT_STEAM_REQUESTS hold a permit while the others are blocked
\* at the semaphore or have ended.
C26_ChunkExceedsBudget ==
    /\ chunk_size > MAX_CONCURRENT_STEAM_REQUESTS
    /\ Cardinality(DOMAIN task) <= chunk_size
    /\ HeldBy(task) <= MAX_CONCURRENT_STEAM_REQUESTS
    /\ \A t \in DOMAIN task : task[t].pc \in {"wait", "attempt", "done", "raised"}
    /\ Cardinality({t \in DOMAIN task : task[t].pc \in {"wait", "attempt"}})
          > MAX_CONCURRENT_STEAM_REQUESTS =>
             \E t \in DOMAIN task : task[t].pc = "wait"

\* a chunk of chunk_size resolutions, all unfinished, of which those without
\* a permit are blocked
C26_Witness ==
    /\ Cardinality(DOMAIN task) = chunk_size
    /\ HeldBy(task) = MAX_CONCURRENT_STEAM_REQUESTS
    /\ Cardinality({t \in DOMAIN task : task[t].pc = "wait"})
          = chunk_size - MAX_CONCURRENT_STEAM_REQUESTS

\* C27: the chunks are processed one after the other.  The resolutions in
\* flight all belong to the current chunk; the batch leaves a chunk only
\* when every resolution of it has ended, and then enters the cool-down, in
\* which no resolution runs; a chunk starts either at the start of the run
\* (the first chunk, without cool-down) or out of the cool-down (every
\* later chunk).
C27_ChunksInSequence ==
    /\ [](\A t \in DOMAIN task :
             chunk_start < t /\ t <= chunk_start + 8 /\ t <= Len(items_to_fetch))
    /\ [](bpc = "cooldown" => (task = NoTasks /\ chunk_start > 0))
    /\ [][chunk_start' # chunk_start =>
             /\ DOMAIN task = (chunk_start + 1) .. (chunk_start + 8)
             /\ \A t \in DOMAIN task : task[t].pc \in {"done", "raised"}
             /\ chunk_start' = chunk_start + 8
             /\ bpc' = "cooldown"]_vars
    /\ [][(bpc # "gather" /\ bpc' = "gather") =>
             \/ bpc = "init" /\ chunk_start' = 0
             \/ bpc = "cooldown" /\ chunk_start' = chunk_start
                   /\ chunk_start > 0]_vars
    /\ [][(bpc = "gather" /\ bpc' # "gather") =>
             \A t \in DOMAIN task : task[t].pc \in {"done", "raised"}]_vars

\* the resolution of the second chunk runs, after the first chunk is stored
C27_Witness ==
    /\ bpc = "gather"
    /\ chunk_start = chunk_size
    /\ DOMAIN task = {chunk_size + 1}
    /\ \A i \in Range(SubSeq(items_to_fetch, 1, chunk_size)) : i \in DOMAIN steam_data_map

(***************************************************************************)
(* Properties of the attempts of a worker, checked under SpecResolve.      *)
(***************************************************************************)
\* the attempt of resolution t is answered by a response of kind
Answered(t, kind) == \E r \in Responses : r.kind = kind /\ Respond(t, r)

\* after the step, resolution t is at the next attempt of the same worker
Retried(t) ==
    /\ task'[t].pc \in {"wait", "attempt"}
    /\ task'[t].source = task[t].source
    /\ task'[t].retry_attempt = task[t].retry_attempt + 1

\* C28: an HTTP 429 makes the worker report the rate-limited outcome --
\* current_delay is multiplied by 2 up to max_delay and rate_limit_count
\* increases by one -- in the step that ends the attempt, hence before the
\* next attempt; the worker then retries while attempts remain; the 429
\* does not increase success_count, writes no cache entry and does not
\* lower the delay.
C28_RateLimitedThenRetry ==
    [][\A t \in TaskIds :
          Answered(t, "rate_limited") =>
             LET s == task[t].source
             IN  /\ STEAM_SOURCES'[s].rate_limit_count
                       = STEAM_SOURCES[s].rate_limit_count + 1
                 /\ STEAM_SOURCES'[s].current_delay
                       = Min(2 * STEAM_SOURCES[s].current_delay, max_delay(s))
                 /\ STEAM_SOURCES'[s].current_delay >= STEAM_SOURCES[s].current_delay
                 /\ STEAM_SOURCES'[s].success_count = STEAM_SOURCES[s].success_count
                 /\ cache' = cache
                 /\ task[t].retry_attempt < 4 => Retried(t)
                 /\ task'[t].returned[s] \in {NotCalled, EmptyQuote(s)}]_vars

\* after one 429 the direct worker is at its second attempt, with the delay
\* doubled and nothing cached
C28_Witness ==
    \E t \in DOMAIN task :
        /\ task[t].source = "steam_direct"
        /\ task[t].retry_attempt = 1
        /\ task[t].pc = "attempt"
        /\ STEAM_SOURCES["steam_direct"].rate_limit_count = 1
        /\ STEAM_SOURCES["steam_direct"].current_delay = 4000000
        /\ STEAM_SOURCES["steam_direct"].success_count = 0
        /\ ~CacheHit(cache, "steam_direct", task[t].item)

\* the kinds of failure that are transient: a status other than 200 and 429,
\* a payload that is no JSON, a timeout, a connection error
TransientKinds == {"bad_status", "bad_json", "timeout", "client_error"}

\* C29: a transient failure of an attempt leaves current_delay (and
\* rate_limit_count, success_count) of the source unchanged, increases its
\* error_count by exactly one, leaves the other source and the cache
\* unchanged, ends that attempt only, and is followed by another attempt
\* of the same worker while attempts remain.
C29_TransientFailureRetried ==
    [][\A t \in TaskIds, kind \in TransientKinds :
          Answered(t, kind) =>
             LET s == task[t].source
             IN  /\ STEAM_SOURCES' =
                       [STEAM_SOURCES EXCEPT ![s].error_count = @ + 1]
                 /\ cache' = cache
                 /\ task'[t].pc # "raised"
                 /\ task[t].retry_attempt < 4 => Retried(t)
                 /\ \A u \in DOMAIN task : u # t => task'[u] = task[u]]_vars

\* after a timeout and a malformed payload the render worker is at its
\* third attempt, its delay as configured
C29_Witness ==
    \E t \in DOMAIN task :
        /\ task[t].source = "steam_render"
        /\ task[t].retry_attempt = 2
        /\ task[t].pc = "attempt"
        /\ STEAM_SOURCES["steam_render"].error_count = 2
        /\ STEAM_SOURCES["steam_render"].rate_limit_count = 0
        /\ STEAM_SOURCES["steam_render"].current_delay = initial_delay("steam_render")
        /\ ~STEAM_SOURCES["steam_direct"].enabled

\* C30: the backoff an attempt sleeps is 0 for the first attempt of a worker
\* and min(30, 5 * 2^(n-1)) seconds for retry attempt n >= 1, that is 5, 10,
\* 20, 30; it is a function of the attempt index alone, whatever the source,
\* the item and current_delay, and the index starts at 0 again when the
\* resolution moves on to the next source.
C30_BackoffByAttempt ==
    /\ [](\A t \in DOMAIN task :
             task[t].pc = "attempt" =>
                /\ task[t].retry_attempt \in 0 .. 4
                /\ task[t].backoff_delay
                      = <<0, 5, 10, 20, 30>>[task[t].retry_attempt + 1]
                /\ task[t].retry_attempt >= 1 =>
                      task[t].backoff_delay
                         = Min(30, 5 * 2 ^ (task[t].retry_attempt - 1)))
    /\ [][\A t \in DOMAIN task \cap DOMAIN task' :
             (task'[t].source # task[t].source /\ task'[t].pc \in {"wait", "attempt"}) =>
                /\ task'[t].retry_attempt = 0
                /\ task'[t].pc = "attempt" => task'[t].backoff_delay = 0]_vars

\* the render worker sleeps the backoff of 30 s before its fifth attempt,
\* after the direct worker used up its attempts, with the delay of the
\* render source escalated to its maximum
C30_Witness ==
    \E t \in DOMAIN task :
        /\ task[t].pc = "attempt"
        /\ task[t].source = "steam_render"
        /\ task[t].retry_attempt = 4
        /\ task[t].backoff_delay = 30
        /\ task[t].returned["steam_direct"] = EmptyQuote("steam_direct")
        /\ STEAM_SOURCES["steam_render"].current_delay = max_delay("steam_render")

(***************************************************************************)
(* The workers and _rate_limit_lock, statement by statement.  A coroutine  *)
(* runs from one await to the next without another coroutine running in    *)
(* between (one event loop, no threads).                                   *)
(*   pc = "sleep"    at "await asyncio.sleep(...)" of an attempt           *)
(*   pc = "request"  at "async with session.get(...)": request in flight   *)
(*   pc = "adjust"   in adaptive_delay_adjustment, inside the with block   *)
(*   pc = "count"    before "STEAM_SOURCES[source][...count] += 1"         *)
(*   pc = "done"     the worker returned                                   *)
(***************************************************************************)
LockWorkers == {1, 2}

\* a worker of source at the first sleep of its first attempt; answer is the
\* response being handled and before is STEAM_SOURCES when it arrived
LockTask(source) ==
    [pc |-> "sleep", source |-> source, retry_attempt |-> 0,
     answer |-> DefaultAnswer, before |-> StaticConfig([s \in Sources |-> TRUE])]

\* some coroutine is between two awaits
BetweenAwaits(tasks) == \E w \in DOMAIN tasks : tasks[w].pc \in {"adjust", "count"}

\* variant: the with block is left without releasing the lock
LockKeptAfterWith(w) == w

\* _rate_limit_lock when "with _rate_limit_lock:" is left
LockAfterWith(w) == 0

\* the responses upon which the worker calls adaptive_delay_adjustment
Adjusts(r) == r.kind \in {"rate_limited", "price"}

\* the responses upon which the worker increments a counter itself
Counts(r) == r.kind # "no_price"

\* the worker after the handling of r: returned, or at the next attempt
AfterHandling(tk, r) ==
    IF r.kind = "price" \/ tk.retry_attempt + 1 >= max_retries
    THEN [tk EXCEPT !.pc = "done"]
    ELSE [tk EXCEPT !.pc = "sleep", !.retry_attempt = @ + 1]

InitLock ==
    /\ STEAM_SOURCES = StaticConfig([s \in Sources |-> TRUE])
    /\ cache = [k \in CacheKeys |-> NoEntry]
    /\ semaphore = [created |-> TRUE,
                    value |-> MAX_CONCURRENT_STEAM_REQUESTS - Cardinality(LockWorkers)]
    /\ \E src \in [LockWorkers -> Sources] :
          task = [w \in LockWorkers |-> LockTask(src[w])]
    /\ NoBatch
    /\ faults = MaxLockFaults
    /\ NoCalls
    /\ NoLibrary

\* asyncio.sleep is over: the worker sends its request
Wake(w) ==
    /\ ~BetweenAwaits(task)
    /\ task[w].pc = "sleep"
    /\ task' = [task EXCEPT ![w].pc = "request"]
    /\ UNCHANGED <<STEAM_SOURCES, cache, semaphore, faults, batch_vars, rate_vars, lib_vars>>

\* the request is answered by r: the worker runs on, into
\* adaptive_delay_adjustment (which takes the lock), to its counter, or to
\* the next attempt
Answer(w, r) ==
    /\ ~BetweenAwaits(task)
    /\ task[w].pc = "request"
    /\ r # DefaultAnswer => faults > 0
    /\ faults' = IF r # DefaultAnswer THEN faults - 1 ELSE faults
    /\ IF Adjusts(r)
       THEN /\ rate_limit_lock = 0
            /\ rate_limit_lock' = w
            /\ task' = [task EXCEPT ![w].pc = "adjust", ![w].answer = r,
                                    ![w].before = STEAM_SOURCES]
       ELSE /\ UNCHANGED rate_limit_lock
            /\ task' = [task EXCEPT ![w] =
                           IF Counts(r)
                           THEN [@ EXCEPT !.pc = "count", !.answer = r,
                                          !.before = STEAM_SOURCES]
                           ELSE AfterHandling(@, r)]
    /\ UNCHANGED <<STEAM_SOURCES, cache, semaphore, batch_vars, calls, last_call, lib_vars>>

\* the body of the with block, and its end
Adjust(w) ==
    /\ task[w].pc = "adjust"
    /\ STEAM_SOURCES' = AdaptiveDelayAdjustment(STEAM_SOURCES, task[w].source,
                                                task[w].answer.kind = "price",
                                                task[w].answer.kind = "rate_limited")
    /\ rate_limit_lock' = LockAfterWith(w)
    /\ task' = [task EXCEPT ![w].pc = "count"]
    /\ UNCHANGED <<cache, semaphore, faults, batch_vars, calls, last_call, lib_vars>>

\* "STEAM_SOURCES[source]["success_count"] += 1" after a price,
\* "STEAM_SOURCES[source]["error_count"] += 1" after a failure
Count(w) ==
    /\ task[w].pc = "count"
    /\ STEAM_SOURCES' =
          IF task[w].answer.kind = "price"
          THEN [STEAM_SOURCES EXCEPT ![task[w].source].success_count = @ + 1]
          ELSE [STEAM_SOURCES EXCEPT ![task[w].source].error_count = @ + 1]
    /\ task' = [task EXCEPT ![w] = AfterHandling(@, task[w].answer)]
    /\ UNCHANGED <<cache, semaphore, faults, batch_vars, rate_vars, lib_vars>>

NextLock ==
    \/ \E w \in LockWorkers : Wake(w)
    \/ \E w \in LockWorkers, r \in Responses : Answer(w, r)
    \/ \E w \in LockWorkers : Adjust(w)
    \/ \E w \in LockWorkers : Count(w)

SpecLock == InitLock /\ [][NextLock]_vars

\* the step writes the field of STEAM_SOURCES[s]
Writes(s, field) == STEAM_SOURCES'[s][field] # STEAM_SOURCES[s][field]

\* C25 as the specification states it: every write of current_delay,
\* success_count, error_count and rate_limit_count is made while
\* _rate_limit_lock is held, and the lock is not held while a coroutine
\* waits for a sleep or a request.
C25_EveryWriteUnderLock ==
    /\ [][\A s \in Sources :
             \A field \in {"current_delay", "success_count", "error_count",
                           "rate_limit_count"} :
                Writes(s, field) => rate_limit_lock # 0]_vars
    /\ [](\A w \in DOMAIN task :
             task[w].pc \in {"sleep", "request"} => rate_limit_lock # w)

\* C25: current_delay and rate_limit_count are written only while
\* _rate_limit_lock is held; success_count and error_count are written by
\* the worker after adaptive_delay_adjustment has released the lock, before
\* the worker's next await, so that the counters and the delay of one
\* outcome are written without another coroutine running in between; the
\* lock is held only inside adaptive_delay_adjustment, never while a
\* coroutine waits for a sleep or a request.
C25_DelayUnderLockCountersNot ==
    /\ [][\A s \in Sources :
             /\ \A field \in {"current_delay", "rate_limit_count"} :
                   Writes(s, field) =>
                      /\ rate_limit_lock # 0
                      /\ task[rate_limit_lock].pc = "adjust"
                      /\ task[rate_limit_lock].source = s
             /\ \A field \in {"success_count", "error_count"} :
                   Writes(s, field) =>
                      /\ rate_limit_lock = 0
                      /\ \E w \in DOMAIN task :
                            /\ Count(w)
                            /\ task[w].source = s
                            /\ STEAM_SOURCES'
                                  = SourcesAfter(task[w].before, s, task[w].answer)]_vars
    /\ [](rate_limit_lock # 0 =>
             /\ task[rate_limit_lock].pc = "adjust"
             /\ \A w \in DOMAIN task :
                   w # rate_limit_lock => task[w].pc \in {"sleep", "request", "done"})

\* a 429 was handled: the delay was escalated under the lock, error_count
\* was incremented after it, and the worker sleeps before its next attempt
\* while the other worker's request is in flight
C25_Witness ==
    /\ rate_limit_lock = 0
    /\ task[1].pc = "sleep"
    /\ task[1].retry_attempt = 1
    /\ task[1].answer.kind = "rate_limited"
    /\ task[2].pc = "request"
    /\ STEAM_SOURCES[task[1].source].rate_limit_count = 1
    /\ STEAM_SOURCES[task[1].source].error_count = 1

(***************************************************************************)
(* What the workers write to the cache, checked under Spec.                *)
(***************************************************************************)
\* the positions of items_to_fetch that hold item i
Positions(i) == {p \in DOMAIN items_to_fetch : items_to_fetch[p] = i}

\* the items a later run with the same list would fetch
FetchedAgain == Range(Misses(item_names, CacheHits(cache, item_names)))

\* C31: every cache entry holds a quote with a price, and a worker writes an
\* entry only with the priced quote it returns, which is then the result of
\* its resolution; a quote without a price is never written.  So an item
\* whose resolution ended without a price has no entry afterwards and is
\* among the misses of a later run (an item listed twice has two
\* resolutions, and the entry of one stays when the other fails).
C31_OnlyPricedQuotesCached ==
    /\ [](\A k \in CacheKeys : cache[k] # NoEntry => HasPrice(cache[k]))
    /\ [][\A k \in CacheKeys :
             cache'[k] # cache[k] =>
                /\ HasPrice(cache'[k])
                /\ \E t \in DOMAIN task :
                      /\ task[t].pc = "attempt"
                      /\ task'[t].pc = "done"
                      /\ task'[t].result = cache'[k]
                      /\ k = CacheKey(task[t].source, task[t].item)]_vars
    /\ [](bpc = "done" =>
            \A i \in DOMAIN steam_data_map :
                (~HasPrice(steam_data_map[i]) /\ Cardinality(Positions(i)) <= 1) =>
                    i \in FetchedAgain)

\* a run has returned: one item got a price that a worker wrote to the
\* cache, another item's resolution used up its retries and wrote nothing
C31_Witness ==
    /\ bpc = "done"
    /\ \E i, j \in DOMAIN steam_data_map :
          /\ ~HasPrice(steam_data_map[i])
          /\ steam_data_map[i].source = "none"
          /\ i \in FetchedAgain
          /\ j \in Range(items_to_fetch)
          /\ HasPrice(steam_data_map[j])
          /\ CacheHit(cache, steam_data_map[j].source, j)

(***************************************************************************)
(* The requests of one resolution, checked under SpecResolve.              *)
(***************************************************************************)
\* the requests a resolution has dispatched to both sources
RequestsOf(tk) == tk.requests["steam_direct"] + tk.requests["steam_render"]

\* C32: a worker dispatches at most max_retries requests for its item and
\* its source, one in each attempt of its retry loop, and a resolution at
\* most 2 * max_retries, whatever the answers are; the worker of a source
\* that is disabled dispatches none.
C32_RequestsBounded ==
    \A t \in DOMAIN task :
        /\ \A s \in Sources :
              /\ task[t].requests[s] <= max_retries
              /\ ~STEAM_SOURCES[s].enabled => task[t].requests[s] = 0
        /\ RequestsOf(task[t]) <= 2 * max_retries
        /\ task[t].pc = "attempt" =>
              task[t].requests[task[t].source] = task[t].retry_attempt + 1
        /\ task[t].pc = "wait" =>
              task[t].requests[task[t].source] = task[t].retry_attempt

\* both workers used up their retries: 2 * max_retries requests, none priced
C32_Witness ==
    \E t \in DOMAIN task :
        /\ task[t].pc = "done"
        /\ task[t].result = NoneQuote
        /\ task[t].requests["steam_direct"] = max_retries
        /\ task[t].requests["steam_render"] = max_retries

(***************************************************************************)
(* Termination of the batch, checked under SpecFair.                       *)
(***************************************************************************)
\* resolution t is blocked at "async with semaphore"
Blocked(t) == t \in DOMAIN task /\ task[t].pc = "wait"

\* C33: under a fair event loop, and when every request is answered, the
\* call returns for every input list (it reaches its return and stays
\* returned), and no worker is blocked at the semaphore forever: whenever
\* one waits for a permit, it later does not.
C33_BatchTerminates ==
    /\ <>[](bpc = "done")
    /\ \A t \in TaskIds : []<>(~Blocked(t))

\* the run of a list of two chunks has returned after both chunks were
\* processed, one of its requests having failed and been retried
C33_Witness ==
    /\ bpc = "done"
    /\ Len(items_to_fetch) > chunk_size
    /\ chunk_start = chunk_size
    /\ faults = 0
    /\ \A i \in Range(item_names) : i \in DOMAIN steam_data_map

(***************************************************************************)
(* The permits of the semaphore, checked under Spec.                       *)
(***************************************************************************)
\* C34: the permits taken from the semaphore are those of the resolutions
\* inside an attempt, one each; the end of an attempt gives its permit back
\* whatever the answer was (a price, a failure that is retried, an
\* exception), the worker holding one again only when it has entered its
\* next attempt; and when gather has returned, and when the run has
\* returned, every permit is free.
C34_PermitsReleased ==
    /\ [](semaphore.created =>
            /\ semaphore.value = MAX_CONCURRENT_STEAM_REQUESTS - HeldBy(task)
            /\ (GatherComplete(task) \/ bpc = "done") =>
                  semaphore.value = MAX_CONCURRENT_STEAM_REQUESTS)
    /\ [][\A t \in DOMAIN task :
             (task[t].pc = "attempt" /\ task' # NoTasks /\ task'[t] # task[t]) =>
                semaphore'.value = semaphore.value + 1 - Held(task'[t])]_vars

\* the run has returned with every permit free, after an attempt that ended
\* in an exception and after attempts that failed and were retried
C34_Witness ==
    /\ bpc = "done"
    /\ semaphore.created
    /\ semaphore.value = MAX_CONCURRENT_STEAM_REQUESTS
    /\ \E i \in DOMAIN steam_data_map : steam_data_map[i] = ErrorQuote
    /\ \E s \in Sources : STEAM_SOURCES[s].error_count >= 2

(***************************************************************************)
(* Two runs of the batch, one after the other, over one cache directory    *)
(* and within STEAM_CACHE_TTL of each other.  The lists are shorter than   *)
(* MAX_CONCURRENT_STEAM_REQUESTS, so that no worker blocks at the          *)
(* semaphore and a run has one chunk.  ret keeps what the first call       *)
(* returned.                                                               *)
(***************************************************************************)
InitAgain ==
    /\ \E en \in [Sources -> BOOLEAN] : STEAM_SOURCES = StaticConfig(en)
    /\ item_names \in InputLists \ {LongList}
    /\ cache \in InitialCaches(Range(item_names))
    /\ semaphore = [created |-> FALSE, value |-> 0]
    /\ task = NoTasks
    /\ items_to_fetch = <<>>
    /\ steam_data_map = EmptyMap
    /\ chunk_start = 0
    /\ bpc = "init"
    /\ faults = MaxFaults
    /\ NoCalls
    /\ NoLibrary

\* the first call has returned: batch_fetch_steam_prices_async is called
\* again with the same item_names, currency and app_id
SecondCall ==
    /\ bpc = "done"
    /\ ret = <<>>
    /\ ret' = <<steam_data_map>>
    /\ bpc' = "init"
    /\ steam_data_map' = EmptyMap
    /\ items_to_fetch' = <<>>
    /\ chunk_start' = 0
    /\ task' = NoTasks
    /\ semaphore' = [created |-> FALSE, value |-> 0]
    /\ UNCHANGED <<STEAM_SOURCES, cache, item_names, faults, rate_vars, files, clock, arg>>

NextAgain ==
    \/ BatchStart
    \/ \E t \in TaskIds, r \in BatchResponses : Respond(t, r)
    \/ ChunkDone
    \/ SecondCall

SpecAgain == InitAgain /\ [][NextAgain]_vars

\* the second call is under way or has returned
InSecondCall == ret # <<>>

\* the quote the first call returned for item i
FirstQuote(i) == ret[1][i]

\* item i got a price in the first call
PricedBefore(i) == i \in DOMAIN ret[1] /\ HasPrice(ret[1][i])

\* C35: the second call returns, for every item for which the first call
\* returned a price, the same quote, and dispatches no resolution for it;
\* and a second call all of whose items had a price in the first changes
\* no field of STEAM_SOURCES.
C35_SecondRunFromCache ==
    /\ [](InSecondCall =>
            /\ \A t \in DOMAIN task : ~PricedBefore(task[t].item)
            /\ bpc = "done" =>
                  \A i \in DOMAIN ret[1] :
                      PricedBefore(i) => steam_data_map[i] = FirstQuote(i))
    /\ [][(InSecondCall /\ \A i \in Range(item_names) : PricedBefore(i)) =>
             STEAM_SOURCES' = STEAM_SOURCES]_vars

\* the names of item_names are pairwise different
NoDuplicates == \A p, q \in DOMAIN item_names : item_names[p] = item_names[q] => p = q

\* the same for the lists without a repeated name
SecondRunFromCacheNoDuplicates ==
    /\ [](InSecondCall /\ NoDuplicates =>
            /\ \A t \in DOMAIN task : ~PricedBefore(task[t].item)
            /\ bpc = "done" =>
                  \A i \in DOMAIN ret[1] :
                      PricedBefore(i) => steam_data_map[i] = FirstQuote(i))
    /\ [][(InSecondCall /\ \A i \in Range(item_names) : PricedBefore(i)) =>
             STEAM_SOURCES' = STEAM_SOURCES]_vars

(***************************************************************************)
(* The sequential path: batch_fetch_steam_prices_sync and                  *)
(* fetch_steam_price_direct_sync.  arg keeps the call's inputs (the cache  *)
(* and STEAM_SOURCES at the call) and the answers the source has given so  *)
(* far; chunk_start holds the position in items_to_fetch the loop is at.   *)
(***************************************************************************)
\* status 403, which the sequential worker treats as it treats 429
Forbidden == [kind |-> "forbidden", price |-> 0]

\* what the source can answer to a request of the sequential worker
SyncResponses == Responses \cup {Forbidden}

\* the concurrent worker's reading of an answer: 403 is a status other than 200
AsyncAnswer(r) == IF r = Forbidden THEN [kind |-> "bad_status", price |-> 0] ELSE r

\* fetch_steam_price_direct_sync(skin_name, app_id, currency) when its
\* request, if it makes one, is answered by r: the quote it returns,
\* STEAM_SOURCES and the cache afterwards, and whether it made the request
fetch_steam_price_direct_sync(skin_name, SS, c, r) ==
    IF CacheHit(c, "steam_direct", skin_name)
    THEN [quote |-> c[CacheKey("steam_direct", skin_name)],
          sources |-> SS, cache |-> c, requested |-> FALSE]
    ELSE IF r.kind \in {"rate_limited", "forbidden"}
    THEN [quote |-> EmptyQuote("steam_direct"),
          sources |-> [AdaptiveDelayAdjustment(SS, "steam_direct", FALSE, TRUE)
                          EXCEPT !["steam_direct"].error_count = @ + 1],
          cache |-> c, requested |-> TRUE]
    ELSE IF r.kind = "price"
    THEN [quote |-> PricedQuote("steam_direct", r.price),
          sources |-> [AdaptiveDelayAdjustment(SS, "steam_direct", TRUE, FALSE)
                          EXCEPT !["steam_direct"].success_count = @ + 1],
          cache |-> SaveCache(c, "steam_direct", skin_name,
                              PricedQuote("steam_direct", r.price)),
          requested |-> TRUE]
    ELSE IF r.kind = "no_price"
    THEN [quote |-> EmptyQuote("steam_direct"), sources |-> SS, cache |-> c,
          requested |-> TRUE]
    ELSE [quote |-> EmptyQuote("steam_direct"),
          sources |-> [SS EXCEPT !["steam_direct"].error_count = @ + 1],
          cache |-> c, requested |-> TRUE]

\* load_cache_batch(item_names, "steam_direct", currency, app_id)[0]
CachedDirect(c, names) ==
    [i \in CachedItems(c, names, "steam_direct") |-> c[CacheKey("steam_direct", i)]]

\* load_cache_batch(item_names, "steam_direct", currency, app_id)[1]
MissesDirect(c, names) ==
    LET miss(name) == ~CacheHit(c, "steam_direct", name)
    IN  SelectSeq(names, miss)

\* one call of batch_fetch_steam_prices_sync(item_names, app_id, currency)
InitSync ==
    /\ \E en \in [Sources -> BOOLEAN] : STEAM_SOURCES = StaticConfig(en)
    /\ item_names \in InputLists \ {LongList}
    /\ cache \in InitialCaches(Range(item_names))
    /\ semaphore = [created |-> FALSE, value |-> 0]
    /\ task = NoTasks
    /\ items_to_fetch = <<>>
    /\ steam_data_map = EmptyMap
    /\ chunk_start = 0
    /\ bpc = "init"
    /\ faults = MaxFaults
    /\ NoCalls
    /\ files = <<>>
    /\ clock = 0
    /\ arg = [cache |-> cache, sources |-> STEAM_SOURCES, answers |-> <<>>]
    /\ ret = <<>>

\* the call up to its loop, or to its return when every item is a hit
SyncStart ==
    /\ bpc = "init"
    /\ steam_data_map' = CachedDirect(cache, item_names)
    /\ items_to_fetch' = MissesDirect(cache, item_names)
    /\ bpc' = IF items_to_fetch' = <<>> THEN "done" ELSE "loop"
    /\ UNCHANGED <<STEAM_SOURCES, cache, semaphore, task, item_names, chunk_start,
                   faults, rate_vars, lib_vars>>

\* one round of the loop over items_to_fetch: the item is fetched and its
\* quote stored; after the last round the call returns
SyncFetch(r) ==
    /\ bpc = "loop"
    /\ LET item == items_to_fetch[chunk_start + 1]
           got  == fetch_steam_price_direct_sync(item, STEAM_SOURCES, cache, r)
       IN  /\ ~got.requested => r = DefaultAnswer
           /\ STEAM_SOURCES' = got.sources
           /\ cache' = got.cache
           /\ steam_data_map' = Store(steam_data_map, item, got.quote)
           /\ arg' = IF got.requested
                     THEN [arg EXCEPT !.answers = Append(@, r)]
                     ELSE arg
    /\ chunk_start' = chunk_start + 1
    /\ bpc' = IF chunk_start' = Len(items_to_fetch) THEN "done" ELSE "loop"
    /\ UNCHANGED <<semaphore, task, item_names, items_to_fetch, faults, rate_vars,
                   files, clock, ret>>

NextSync ==
    \/ SyncStart
    \/ \E r \in SyncResponses : SyncFetch(r)

SpecSync == InitSync /\ [][NextSync]_vars

(***************************************************************************)
(* The concurrent path with one permit: its resolutions run in turn, each  *)
(* request answered by the next of answers, and by DefaultAnswer when      *)
(* answers is used up.                                                     *)
(***************************************************************************)
\* one resolution from "async with semaphore" on, to its return
RECURSIVE Resolve(_, _, _, _)
Resolve(tk, SS, c, answers) ==
    IF tk.pc # "wait"
    THEN [task |-> tk, sources |-> SS, cache |-> c, answers |-> answers]
    ELSE LET r   == IF answers = <<>> THEN DefaultAnswer ELSE AsyncAnswer(Head(answers))
             SS2 == SourcesAfter(SS, tk.source, r)
             c2  == CacheAfter(c, tk.source, tk.item, r)
         IN  Resolve(TaskAfter(EnterAttempt(tk), r, SS2, c2), SS2, c2,
                     IF answers = <<>> THEN <<>> ELSE Tail(answers))

\* the chunk's resolutions from position p on, their results stored in map
RECURSIVE ResolveInTurn(_, _, _, _, _, _)
ResolveInTurn(to_fetch, p, map, SS, c, answers) ==
    IF p > Len(to_fetch)
    THEN map
    ELSE LET end == Resolve(EnterDirect(NewTask(to_fetch[p]), SS, c), SS, c, answers)
         IN  ResolveInTurn(to_fetch, p + 1,
                           Store(map, to_fetch[p], StoredResult(end.task)),
                           end.sources, end.cache, end.answers)

\* the map batch_fetch_steam_prices_async returns with one permit
ConcurrentWithOnePermit(names, SS, c, answers) ==
    ResolveInTurn(Misses(names, CacheHits(c, names)), 1, CacheHits(c, names),
                  SS, c, answers)

\* C36: the sequential path returns the map the concurrent path returns
\* with one permit, for the same list, cache, STEAM_SOURCES and answers of
\* the source.
C36_SyncAsConcurrentWithOnePermit ==
    bpc = "done" =>
        steam_data_map = ConcurrentWithOnePermit(item_names, arg.sources, arg.cache,
                                                 arg.answers)

\* the two paths agree where no retry, no fallback and no status 403 comes
\* in: steam_direct enabled, no entry of steam_render in the cache, and a
\* price in every answer
SyncAgreesOnPlainRuns ==
    (/\ bpc = "done"
     /\ arg.sources["steam_direct"].enabled
     /\ \A i \in Range(item_names) : ~CacheHit(arg.cache, "steam_render", i)
     /\ \A n \in DOMAIN arg.answers : arg.answers[n].kind = "price") =>
        steam_data_map = ConcurrentWithOnePermit(item_names, arg.sources, arg.cache,
                                                 arg.answers)

(***************************************************************************)
(* data_analysis.compute_bullish_score.  Averages are in cents; a number   *)
(* is a fraction in lowest terms.                                          *)
(***************************************************************************)
\* "x or 0.0": None and 0 give 0
OrZero(v) == IF v.kind = "None" THEN 0 ELSE v.x

\* the sum and the product of two fractions, and a fraction times a natural
Plus(p, q) == Fraction(p.num * q.den + q.num * p.den, p.den * q.den)
Times(p, q) == Fraction(p.num * q.num, p.den * q.den)
Scaled(k, q) == Fraction(k * q.num, q.den)

\* math.log10(n) for n a power of ten
RECURSIVE Log10(_)
Log10(n) == IF n < 10 THEN 0 ELSE 1 + Log10(n \div 10)

\* growth_short, from avg_24h and avg_7d after "or 0.0"
growth_short(avg_24h, avg_7d) ==
    IF avg_7d # 0 /\ avg_7d > 0
    THEN IF avg_24h # 0 THEN Fraction(avg_24h, avg_7d) ELSE Fraction(0, 1)
    ELSE IF avg_24h # 0 /\ avg_24h > 0 THEN Fraction(2, 1) ELSE Fraction(0, 1)

\* variant: growth_med with the fallback of growth_short
growth_med_as_short(avg_7d, avg_30d) == growth_short(avg_7d, avg_30d)

\* growth_med, from avg_7d and avg_30d after "or 0.0"
growth_med(avg_7d, avg_30d) ==
    IF avg_30d # 0 /\ avg_30d > 0
    THEN IF avg_7d # 0 THEN Fraction(avg_7d, avg_30d) ELSE Fraction(0, 1)
    ELSE IF avg_7d # 0 /\ avg_7d > 0 THEN Fraction(1, 1) ELSE Fraction(0, 1)

\* compute_bullish_score(avg_24h, avg_7d, avg_30d, vol_7d): its locals at the
\* return and the value returned, combined * (1 + log10(1 + vol_7d))
compute_bullish_score(avg_24h, avg_7d, avg_30d, vol_7d) ==
    LET gs == growth_short(OrZero(avg_24h), OrZero(avg_7d))
        gm == growth_med(OrZero(avg_7d), OrZero(avg_30d))
        combined == Fraction(Plus(Scaled(6, gs), Scaled(4, gm)).num,
                             10 * Plus(Scaled(6, gs), Scaled(4, gm)).den)
    IN  [growth_short |-> gs, growth_med |-> gm, combined |-> combined,
         score |-> Scaled(1 + Log10(1 + OrZero(vol_7d)), combined)]

\* the averages and volumes the score is computed for; 1 + vol_7d is a
\* power of ten
Averages == {PyNone} \cup {PyFloat(x) : x \in {-50, 0, 50, 100, 150, 250}}
BullishVolumes == {PyNone, PyFloat(0), PyFloat(9), PyFloat(99)}

InitBullish ==
    /\ EngineIdle
    /\ files = <<>>
    /\ clock = 0
    /\ arg \in [avg_24h : Averages, avg_7d : Averages, avg_30d : Averages,
                vol_7d : BullishVolumes]
    /\ ret = <<>>

\* the score is computed
Bullish ==
    /\ ret = <<>>
    /\ ret' = compute_bullish_score(arg.avg_24h, arg.avg_7d, arg.avg_30d, arg.vol_7d)
    /\ UNCHANGED <<files, clock, arg, engine_vars>>

NextBullish == Bullish

SpecBullish == InitBullish /\ [][NextBullish]_vars

\* the growth that rule (ratio when the older average is positive, else
\* `fallback` when the newer is positive, else 0) gives for the pair
GrowthRule(newer, older, fallback) ==
    IF OrZero(older) > 0
    THEN Fraction(OrZero(newer), OrZero(older))
    ELSE IF OrZero(newer) > 0 THEN Fraction(fallback, 1) ELSE Fraction(0, 1)

\* C37 as stated: growth_med follows the rule of growth_short, with the
\* fallback 2.0 when avg_30d is not positive and avg_7d is.
C37_GrowthMedAsShort ==
    ret # <<>> =>
        /\ ret.growth_short = GrowthRule(arg.avg_24h, arg.avg_7d, 2)
        /\ ret.growth_med = GrowthRule(arg.avg_7d, arg.avg_30d, 2)

\* C37, amended: growth_short is avg_24h / avg_7d when avg_7d > 0, else 2.0
\* if avg_24h > 0 and 0.0 if not; growth_med is avg_7d / avg_30d when
\* avg_30d > 0, else 1.0 (not 2.0) if avg_7d > 0 and 0.0 if not; and the
\* score returned is (0.6 growth_short + 0.4 growth_med) * (1 + log10(1 + vol_7d)).
C37_GrowthMedFallbackOne ==
    ret # <<>> =>
        /\ ret.growth_short = GrowthRule(arg.avg_24h, arg.avg_7d, 2)
        /\ ret.growth_med = GrowthRule(arg.avg_7d, arg.avg_30d, 1)
        /\ Scaled(10, ret.score) =
              Scaled(1 + Log10(1 + OrZero(arg.vol_7d)),
                     Plus(Scaled(6, GrowthRule(arg.avg_24h, arg.avg_7d, 2)),
                          Scaled(4, GrowthRule(arg.avg_7d, arg.avg_30d, 1))))

\* no 30-day average and a positive 7-day average equal to the 24-hour one:
\* growth_short is 1, growth_med falls back to 1, and the score is 1.0
C37_Witness ==
    /\ ret # <<>>
    /\ OrZero(arg.avg_30d) = 0
    /\ OrZero(arg.avg_7d) > 0
    /\ arg.avg_24h = arg.avg_7d
    /\ OrZero(arg.vol_7d) = 0
    /\ ret.growth_med = Fraction(1, 1)
    /\ ret.score = Fraction(1, 1)

(***************************************************************************)
(* The composite of compute_enhanced_explosiveness: the weighted sum of    *)
(* its seven components.  Weights are in hundredths, components in tenths, *)
(* total_score in thousandths, the explosiveness in tenths.                *)
(***************************************************************************)
\* the keys of EXPLOSIVENESS_WEIGHTS
Components ==
    {"momentum_composite", "scarcity_signal", "discount_opportunity",
     "volatility_breakout", "volume_surge", "market_sentiment", "manipulation_risk"}

\* variant: weights that sum to 1.0, the momentum taking the difference
WeightsSummingToOne ==
    [c \in Components |->
        CASE c = "momentum_composite"   -> 45
          [] c = "scarcity_signal"      -> 20
          [] c = "discount_opportunity" -> 15
          [] c = "volatility_breakout"  -> 15
          [] c = "volume_surge"         -> 10
          [] c = "market_sentiment"     -> 10
          [] c = "manipulation_risk"    -> -15]

\* config.EXPLOSIVENESS_WEIGHTS
EXPLOSIVENESS_WEIGHTS ==
    [c \in Components |->
        CASE c = "momentum_composite"   -> 25
          [] c = "scarcity_signal"      -> 20
          [] c = "discount_opportunity" -> 15
          [] c = "volatility_breakout"  -> 15
          [] c = "volume_surge"         -> 10
          [] c = "market_sentiment"     -> 10
          [] c = "manipulation_risk"    -> -15]

\* "for component, weight in EXPLOSIVENESS_WEIGHTS.items(): total_score +=
\* component_value * weight", over the keys of S
RECURSIVE total_score(_, _)
total_score(components, S) ==
    IF S = {}
    THEN 0
    ELSE LET c == CHOOSE k \in S : TRUE
         IN  components[c] * EXPLOSIVENESS_WEIGHTS[c] + total_score(components, S \ {c})

\* explosiveness_final = max(0.0, min(100.0, total_score * 100.0))
explosiveness_final(total) == Max(0, Min(1000, total))

\* the last lines of compute_enhanced_explosiveness, from its components
CompositeScore(components) ==
    [total_score |-> total_score(components, Components),
     explosiveness |-> explosiveness_final(total_score(components, Components))]

\* the values of a component: 0, 0.5 and 1
ComponentValues == {0, 5, 10}

InitComposite ==
    /\ EngineIdle
    /\ files = <<>>
    /\ clock = 0
    /\ arg \in [Components -> ComponentValues]
    /\ ret = <<>>

\* the components are combined
Combine ==
    /\ ret = <<>>
    /\ ret' = CompositeScore(arg)
    /\ UNCHANGED <<files, clock, arg, engine_vars>>

NextComposite == Combine

SpecComposite == InitComposite /\ [][NextComposite]_vars

\* the sum of the weights of the keys of S, in hundredths
RECURSIVE WeightSum(_)
WeightSum(S) ==
    IF S = {}
    THEN 0
    ELSE LET c == CHOOSE k \in S : TRUE
         IN  EXPLOSIVENESS_WEIGHTS[c] + WeightSum(S \ {c})

\* every component has the value v
AllAt(v) == \A c \in Components : arg[c] = v

LowerWord(w) ==
    CASE w \in {"Sticker", "STICKER", "sticker"} -> "sticker"
      [] w \in {"Holo", "holo"} -> "holo"
      [] w \in {"Stockholm 2021", "stockholm 2021"} -> "stockholm 2021"
      [] w = "AK-47" -> "ak-47"
      [] w = "Titan" -> "titan"

\* "word in name.lower()"
InLower(word, name) == \E k \in DOMAIN name : LowerWord(name[k]) = word

\* PUMP_DETECTION
PUMP_DETECTION ==
    [high_volume_low_growth |-> 200, extreme_medium_momentum |-> 3,
     sticker_volume_threshold |-> 100]

\* vs30 = avg7 / avg30, for avg30 other than 0
vs30(avg7, avg30) ==
    IF avg30 > 0 THEN Fraction(avg7, avg30) ELSE Fraction(-avg7, -avg30)

\* variant: the conditions form an if / elif chain, the first that holds counts
pump_risk_first_match(name, avg24, avg7, avg30, vol7, momentum_short) ==
    IF vol7 > PUMP_DETECTION.high_volume_low_growth /\ momentum_short < 8 THEN 40
    ELSE IF OrZero(avg30) # 0 /\ avg7 > 0
            /\ MoreThan(vs30(avg7, OrZero(avg30)), PUMP_DETECTION.extreme_medium_momentum)
    THEN 30
    ELSE IF InLower("sticker", name) /\ vol7 > PUMP_DETECTION.sticker_volume_threshold THEN 25
    ELSE IF momentum_short < 5 /\ vol7 > 100 THEN 20
    ELSE IF InLower("stockholm 2021", name) /\ InLower("holo", name) THEN 15
    ELSE 0

\* detect_pump_risk(name, avg24, avg7, avg30, vol7, momentum_short):
\* risk_score after each of the five "if" statements, and min(100.0, risk_score)
detect_pump_risk(name, avg24, avg7, avg30, vol7, momentum_short) ==
    LET r1 == IF vol7 > PUMP_DETECTION.high_volume_low_growth /\ momentum_short < 8
              THEN 40 ELSE 0
        r2 == IF OrZero(avg30) # 0 /\ avg7 > 0
                 /\ MoreThan(vs30(avg7, OrZero(avg30)),
                             PUMP_DETECTION.extreme_medium_momentum)
              THEN r1 + 30 ELSE r1
        r3 == IF InLower("sticker", name) /\ vol7 > PUMP_DETECTION.sticker_volume_threshold
              THEN r2 + 25 ELSE r2
        r4 == IF momentum_short < 5 /\ vol7 > 100 THEN r3 + 20 ELSE r3
        r5 == IF InLower("stockholm 2021", name) /\ InLower("holo", name)
              THEN r4 + 15 ELSE r4
    IN  Min(100, r5)

\* the arguments detect_pump_risk is applied to
PumpNames ==
    {<<"AK-47">>, <<"Sticker", "Titan">>, <<"STICKER", "Holo", "Stockholm 2021">>,
     <<"Holo", "Stockholm 2021">>, <<"sticker", "stockholm 2021">>}
PumpVolumes == {0, 100, 101, 200, 201}
PumpMomenta == {4, 5, 7, 8, 12}
PumpAvg7 == {0, 300, 301}
PumpAvg30 == {PyNone, PyFloat(0), PyFloat(100), PyFloat(-100)}

InitPump ==
    /\ EngineIdle
    /\ files = <<>>
    /\ clock = 0
    /\ arg \in [name : PumpNames, avg7 : PumpAvg7, avg30 : PumpAvg30,
                vol7 : PumpVolumes, momentum_short : PumpMomenta]
    /\ ret = <<>>

\* the risk is computed; ret is a one-element tuple with the value returned
PumpRisk ==
    /\ ret = <<>>
    /\ ret' = <<detect_pump_risk(arg.name, arg.avg7, arg.avg7, arg.avg30, arg.vol7,
                                 arg.momentum_short)>>
    /\ UNCHANGED <<files, clock, arg, engine_vars>>

NextPump == PumpRisk

SpecPump == InitPump /\ [][NextPump]_vars

\* the five conditions, as the claim names them, with their penalties
PumpConditions ==
    {[penalty |-> 40, holds |-> arg.vol7 > 200 /\ arg.momentum_short < 8],
     [penalty |-> 30, holds |-> /\ arg.avg30.kind # "None"
                                /\ arg.avg30.x > 0
                                /\ arg.avg7 > 3 * arg.avg30.x],
     [penalty |-> 25, holds |-> arg.vol7 > 100 /\ \E k \in DOMAIN arg.name :
                                   arg.name[k] \in {"Sticker", "STICKER", "sticker"}],
     [penalty |-> 20, holds |-> arg.momentum_short < 5 /\ arg.vol7 > 100],
     [penalty |-> 15, holds |-> /\ \E k \in DOMAIN arg.name :
                                      arg.name[k] \in {"Stockholm 2021", "stockholm 2021"}
                                /\ \E k \in DOMAIN arg.name : arg.name[k] \in {"Holo", "holo"}]}

\* the sum of the penalties of the conditions of S that hold
RECURSIVE PenaltySum(_)
PenaltySum(S) ==
    IF S = {}
    THEN 0
    ELSE LET c == CHOOSE x \in S : TRUE
         IN  (IF c.holds THEN c.penalty ELSE 0) + PenaltySum(S \ {c})

\* C39: detect_pump_risk returns min(100, the sum of the penalties 40, 30,
\* 25, 20 and 15 of exactly those of its five conditions that hold), a
\* value in [0, 100]: each condition counts whether or not another holds.
C39_PenaltiesStack ==
    ret # <<>> =>
        /\ ret[1] = Min(100, PenaltySum(PumpConditions))
        /\ ret[1] >= 0
        /\ ret[1] <= 100

\* the five conditions hold together, 130 points, and 100 is returned
C39_Witness ==
    /\ ret # <<>>
    /\ \A c \in PumpConditions : c.holds
    /\ PenaltySum(PumpConditions) = 130
    /\ ret[1] = 100

(***************************************************************************)
(* The volume surge of compute_enhanced_explosiveness.  The multiplier is  *)
(* in tenths; a normalized value is a float of _normalize_score.           *)
(***************************************************************************)
VOLUME_SURGE_MULTIPLIER == 25

\* variant: the baseline is a quarter of the volume
baseline_quarter(vol) == IF vol > 0 THEN Max(1, vol \div 4) ELSE 1

\* estimated_baseline = vol * 4 if vol > 0 else 1
estimated_baseline(vol) == IF vol > 0 THEN vol * 4 ELSE 1

\* "if vol > estimated_baseline * VOLUME_SURGE_MULTIPLIER: volume_surge =
\* _normalize_score(vol / estimated_baseline, VOLUME_SURGE_MULTIPLIER, 5.0)
\* else: volume_surge = 0.0", with vol = vol7 or 0; the ratio that is
\* normalized between 2.5 and 5.0 is taken in tenths, rounded down
volume_surge(vol7) ==
    LET vol == OrZero(vol7)
    IN  IF 10 * vol > estimated_baseline(vol) * VOLUME_SURGE_MULTIPLIER
        THEN normalize_score(PyFloat((10 * vol) \div estimated_baseline(vol)),
                             VOLUME_SURGE_MULTIPLIER, 50)
        ELSE Finite(Fraction(0, 1))

\* the volumes of seven days: none, and 0 .. MaxVolume
SurgeVolumes == {PyNone} \cup {PyFloat(v) : v \in 0 .. MaxVolume}

InitSurge ==
    /\ EngineIdle
    /\ files = <<>>
    /\ clock = 0
    /\ arg \in SurgeVolumes
    /\ ret = <<>>

\* the component is computed
Surge ==
    /\ ret = <<>>
    /\ ret' = volume_surge(arg)
    /\ UNCHANGED <<files, clock, arg, engine_vars>>

NextSurge == Surge

SpecSurge == InitSurge /\ [][NextSurge]_vars

\* C40: the volume surge is 0 for every volume of seven days that is not
\* negative (and for none): the baseline is 4 times the volume, or 1 for
\* the volume 0, so that the volume is never above 2.5 times the baseline,
\* and the component adds nothing to total_score.
C40_VolumeSurgeAlwaysZero ==
    ret # <<>> =>
        /\ ret = Finite(Fraction(0, 1))
        /\ 10 * OrZero(arg) <= estimated_baseline(OrZero(arg)) * VOLUME_SURGE_MULTIPLIER
        /\ EXPLOSIVENESS_WEIGHTS["volume_surge"] * ret.q.num = 0

\* a large volume, far above the threshold of a high volume, and a surge of 0
C40_Witness ==
    /\ ret # <<>>
    /\ OrZero(arg) >= 2 * HIGH_VOLUME_THRESHOLD
    /\ estimated_baseline(OrZero(arg)) = 4 * OrZero(arg)
    /\ ret = Finite(Fraction(0, 1))

====
